---- MODULE Spec2Model ----
(***************************************************************************)
(* Junction shape computation of NBNodeShapeComputer (netbuild).           *)
(*                                                                         *)
(* One behaviour is one call of NBNodeShapeComputer::compute for one node. *)
(* Edges are identified by their position in myNode.myAllEdges (1..nEdges).*)
(* Results of the geometry kernel (PositionVector, Line, GeomHelper) and   *)
(* of NBNode / NBEdge queries, whose code is not part of the analysed      *)
(* sources, are inputs: those asked once are chosen where the code asks    *)
(* them, those asked repeatedly are fixed in the initial state.            *)
(*                                                                         *)
(* Units: lengths in length units, node angles in tenths of a degree,      *)
(* direction angles of joinSameDirectionEdges in degrees.                  *)
(***************************************************************************)
EXTENDS Integers, Sequences, FiniteSets, TLC

VARIABLES
    nEdges,        \* myNode.myAllEdges.size()
    incoming,      \* incoming[e]: myNode.hasIncoming(e), e.getToNode() == &myNode
    simpleCont,    \* myNode.isSimpleContinuation()
    turning,       \* getIncomingEdges()[0]->isTurningDirectionAt(&myNode, getOutgoingEdges()[0])
    invalid,       \* <<e, side>>: the boundary-line computation that raises InvalidArgument
    cornerDetail,  \* option junctions.corner-detail
    radius,        \* the node's corner radius
    dirAngle,      \* dirAngle[e]: l1 / l2 .atan2DegreeAngle() as joinSameDirectionEdges saw it
    furtherAngle,  \* furtherAngle[e]: angle1further / angle2further as it saw it
    geom,          \* geom[e]: the centerline of edge e (NBEdge::getGeometry)
    pc,            \* position of the call
    maxAngle,      \* local of compute
    defaultCalls,  \* number of times computeNodeShapeDefault was entered
    smallCalls,    \* number of times computeNodeShapeSmall was entered
    defRet,        \* the polygon computeNodeShapeDefault returned
    smallRet,      \* local ret of computeNodeShapeSmall
    ret,           \* the polygon compute returned
    warnings,      \* number of WRITE_WARNING calls
    escaped,       \* the source line whose InvalidArgument left compute, 0 if none
    same,          \* local of computeNodeShapeDefault
    geomsCCW,      \* local of computeNodeShapeDefault
    geomsCW,       \* local of computeNodeShapeDefault
    ccwBoundary,   \* local of computeNodeShapeDefault
    cwBoundary,    \* local of computeNodeShapeDefault
    newAll,        \* local of computeUniqueDirectionList / computeNodeShapeDefault
    passes,        \* iterations of the while loop of computeUniqueDirectionList
    erased,        \* edges erased from newAll so far
    iterInvalid,   \* an erase hit a position at or before the scan iterator
    idx,           \* position of the iterator i in the running loop
    distances,     \* local of computeNodeShapeDefault
    myExtended,    \* local of computeNodeShapeDefault
    shape,         \* local ret of the build loop of computeNodeShapeDefault
    firstRun,      \* what an earlier call of compute for this node returned and left
    network,       \* two nodes computed at once: their myAllEdges and the centerlines at the start
    calls,         \* calls[n]: the locals of the call of compute for node n
    data,          \* the char array handed to a converter of TplConvert
    converted,     \* the converter that was called and how the call ended
    seen,          \* what the loop body or helper that ran last worked with
    instanceM,     \* MSUpdateEachTimestepContainer::instanceM, 0 or the instance's number
    containerM,    \* containerM of the instance instanceM points to
    made,          \* number of instances constructed so far
    got,           \* what the last call of getInstance returned
    added,         \* the items handed to addItemToUpdate of the instance, in call order
    updates        \* the items updateEachTimestep was invoked on by the last updateAll

nodeVars == <<nEdges, incoming, simpleCont, turning, invalid, cornerDetail, radius>>
angleVars == <<dirAngle, furtherAngle>>
callVars == <<maxAngle, defaultCalls, smallCalls, defRet, smallRet, ret, warnings, escaped>>
mergeVars == <<same, geomsCCW, geomsCW, ccwBoundary, cwBoundary, newAll, passes, erased, iterInvalid>>
trimVars == <<idx, distances, myExtended, shape>>
twoCallVars == <<network, calls>>
convertVars == <<data, converted>>
containerVars == <<instanceM, containerM, made, got, added, updates>>
vars == <<nodeVars, angleVars, geom, pc, callVars, mergeVars, trimVars, firstRun, twoCallVars,
         convertVars, seen, containerVars>>

----------------------------------------------------------------------------
(* Bounds of the model *)

MaxEdges == 2          \* incident edges of a node, full computation
MaxMergeEdges == 3     \* incident edges of a node, direction merging only

(* Input sets *)

Points == {"A", "B", "C"}                 \* positions on the boundaries of a direction
SmallPoints == {"A", "B"}                 \* crossings of the normal with a boundary
CurvePoints == {"C"}                      \* inner points of a smoothed corner
MeanPoint == "M"                          \* the mean position p of pass 1
Centerline == <<"s", "t">>                \* the centerline every edge starts with
AngleDiffs == {0, 225, 230, 1800}         \* GeomHelper::getMinAngleDiff, tenths of a degree
Radii == {2}                              \* myNode.getRadius(), resolved
CornerDetails == {0, 1}
\* <<first-segment angle, angle at the lookahead point>> of an edge, degrees in (-180, 180]
Profiles == {<<0, 0>>, <<10, -5>>, <<170, 170>>, <<-175, -175>>}
BoundAngles == {0, 1400, 1800}            \* atan2PositiveAngle, tenths of a degree
IntersectOffsets == {3, 8}                \* intersectsAtLengths2D(...)[0]
NearestOffsets == {-1, 98}                \* nearest_offset_to_point2D
Intersects == BOOLEAN                     \* Line::intersects, PositionVector::intersects

Edges == 1..nEdges
OtherEdges == {0}                         \* an edge of the network that does not touch the node
Sides == {"ccw", "cw"}
NoInvalid == <<0, "none">>
\* compute was not called for this node before
NoRun == [ran |-> FALSE, ret |-> <<>>, geom |-> <<>>]
\* a single node is computed
OneCall == <<>>
\* no converter of TplConvert is called
NoData == [null |-> TRUE, chars |-> <<>>]
NotConverted == [by |-> "none", result |-> [kind |-> "none"]]
\* no loop body or helper has been looked at
NotSeen == [what |-> "nothing"]
\* MSUpdateEachTimestepContainer is not used: instanceM is 0 and nothing was called
NoContainer ==
    /\ instanceM = 0
    /\ containerM = <<>>
    /\ made = 0
    /\ got = 0
    /\ added = <<>>
    /\ updates = <<>>

Abs(x) == IF x < 0 THEN -x ELSE x
Min2(a, b) == IF a < b THEN a ELSE b

Incoming == {e \in Edges : incoming[e]}      \* myNode.getIncomingEdges()
Outgoing == {e \in Edges : ~incoming[e]}     \* myNode.getOutgoingEdges()

\* PositionVector::push_back_noDoublePos
push_back_noDoublePos(v, p) ==
    IF Len(v) = 0 \/ v[Len(v)] # p THEN Append(v, p) ELSE v

\* PositionVector::push_front_noDoublePos
push_front_noDoublePos(v, p) ==
    IF Len(v) = 0 \/ v[1] # p THEN <<p>> \o v ELSE v

EmptyMap == [k \in {} |-> 0]
\* std::map assignment m[k] = v
Put(m, k, v) == [x \in (DOMAIN m) \cup {k} |-> IF x = k THEN v ELSE m[x]]
\* std::map::operator[] used as a read: a missing key is inserted with the default value
Touch(m, k, dflt) == IF k \in DOMAIN m THEN m ELSE Put(m, k, dflt)

----------------------------------------------------------------------------
(* The node handed to the constructor *)

\* NBNode::isSimpleContinuation can hold only for 1-in/1-out and 2-in/2-out nodes
SimpleContinuationPossible(n, inc) ==
    LET nIn == Cardinality({e \in 1..n : inc[e]})
    IN  (nIn = 1 /\ n = 2) \/ (nIn = 2 /\ n = 4)

\* isTurningDirectionAt is asked only at a node with two edges, one of them incoming
TurningAsked(n, inc) == n = 2 /\ Cardinality({e \in 1..n : inc[e]}) = 1

InitNode(maxN) ==
    /\ nEdges \in 1..maxN
    /\ incoming \in [1..nEdges -> BOOLEAN]
    /\ simpleCont \in (IF SimpleContinuationPossible(nEdges, incoming) THEN BOOLEAN ELSE {FALSE})
    /\ turning \in (IF TurningAsked(nEdges, incoming) THEN BOOLEAN ELSE {FALSE})
    /\ invalid \in {NoInvalid} \cup ((1..nEdges) \X Sides)
    /\ cornerDetail \in CornerDetails
    /\ radius \in Radii
    /\ geom = [e \in (1..nEdges) \cup OtherEdges |-> Centerline]
    /\ firstRun = NoRun
    /\ network = OneCall
    /\ calls = OneCall
    /\ data = NoData
    /\ converted = NotConverted
    /\ seen = NotSeen
    /\ NoContainer

\* nothing has been computed yet
InitLocals ==
    /\ dirAngle = EmptyMap
    /\ furtherAngle = EmptyMap
    /\ maxAngle = 0
    /\ defaultCalls = 0
    /\ smallCalls = 0
    /\ defRet = <<>>
    /\ smallRet = <<>>
    /\ ret = <<>>
    /\ warnings = 0
    /\ escaped = 0
    /\ same = EmptyMap
    /\ geomsCCW = EmptyMap
    /\ geomsCW = EmptyMap
    /\ ccwBoundary = EmptyMap
    /\ cwBoundary = EmptyMap
    /\ newAll = <<>>
    /\ passes = 0
    /\ erased = {}
    /\ iterInvalid = FALSE
    /\ idx = 0
    /\ distances = EmptyMap
    /\ myExtended = {}
    /\ shape = <<>>

InitCall ==
    /\ pc = "compute"
    /\ InitLocals

Init == InitNode(MaxEdges) /\ InitCall

----------------------------------------------------------------------------
(* NBEdge::getCCWBoundaryLine / getCWBoundaryLine raise InvalidArgument *)
Throws(e, side) == invalid = <<e, side>>

(* The locals of computeNodeShapeDefault go out of scope *)
DropDefaultLocals ==
    /\ same' = EmptyMap
    /\ geomsCCW' = EmptyMap
    /\ geomsCW' = EmptyMap
    /\ ccwBoundary' = EmptyMap
    /\ cwBoundary' = EmptyMap
    /\ newAll' = <<>>
    /\ idx' = 0
    /\ distances' = EmptyMap
    /\ myExtended' = {}
    /\ shape' = <<>>

(* The angles joinSameDirectionEdges computed are not used after the direction list *)
DropAngles ==
    /\ dirAngle' = EmptyMap
    /\ furtherAngle' = EmptyMap

(* An InvalidArgument raised at the given source line leaves compute *)
Escape(line) ==
    /\ pc' = "thrown"
    /\ escaped' = line
    /\ DropDefaultLocals
    /\ DropAngles
    /\ smallRet' = <<>>

----------------------------------------------------------------------------
(* NBNodeShapeComputer::compute, up to the first call *)

\* variants: the dead-end test is missing / the turn-around test is missing
singleDirectionNoDeadEnd == nEdges = 2 /\ Cardinality(Incoming) = 1 /\ turning
singleDirectionNoTurn == nEdges = 1

singleDirection ==
    \/ nEdges = 1
    \/ (nEdges = 2 /\ Cardinality(Incoming) = 1 /\ turning)

\* the loop over incoming x outgoing: ad[<<i, j>>] is getMinAngleDiff(ia, oa)
MaxAngleOf(ad) ==
    LET kept == {ad[p] : p \in {q \in DOMAIN ad : 225 >= ad[q]}}
    IN  IF kept = {} THEN 0 ELSE CHOOSE m \in kept : \A x \in kept : x <= m

compute ==
    /\ pc = "compute"
    /\ IF singleDirection
       THEN /\ pc' = "small"
            /\ smallCalls' = smallCalls + 1
            /\ UNCHANGED <<maxAngle, defaultCalls>>
       ELSE IF simpleCont
       THEN \E ad \in [Incoming \X Outgoing -> AngleDiffs] :
               /\ maxAngle' = MaxAngleOf(ad)
               /\ IF maxAngle' > 225
                  THEN /\ pc' = "small"
                       /\ smallCalls' = smallCalls + 1
                       /\ UNCHANGED defaultCalls
                  ELSE /\ pc' = "default"
                       /\ defaultCalls' = defaultCalls + 1
                       /\ UNCHANGED smallCalls
       ELSE /\ pc' = "default"
            /\ defaultCalls' = defaultCalls + 1
            /\ UNCHANGED <<maxAngle, smallCalls>>
    /\ idx' = IF pc' = "small" THEN 1 ELSE 0
    /\ UNCHANGED <<seen, containerVars, convertVars, twoCallVars, firstRun, nodeVars, angleVars, geom, defRet, smallRet, ret, warnings, escaped,
                   mergeVars, distances, myExtended, shape>>

----------------------------------------------------------------------------
(* NBNodeShapeComputer::computeNodeShapeSmall, one incident edge per step *)

\* the two crossings of one edge: hit says whether cross.intersects(edgebound),
\* np is cross.intersectsAt(edgebound)
\* variant: the first crossing is stored once more after the second
SmallCrossingsTwice(v, hit1, np1, hit2, np2) ==
    LET v1 == IF hit1 THEN push_back_noDoublePos(v, np1) ELSE v
    IN  IF hit2 THEN push_back_noDoublePos(push_back_noDoublePos(v1, np2), np1) ELSE v1

SmallCrossings(v, hit1, np1, hit2, np2) ==
    LET v1 == IF hit1 THEN push_back_noDoublePos(v, np1) ELSE v
    IN  IF hit2 THEN push_back_noDoublePos(v1, np2) ELSE v1

computeNodeShapeSmall ==
    /\ pc = "small"
    /\ idx \in 1..nEdges
    /\ IF Throws(idx, "ccw") \/ Throws(idx, "cw")
       THEN /\ Escape(IF Throws(idx, "ccw") THEN 806 ELSE 807)
            /\ UNCHANGED ret
       ELSE /\ \E hit1 \in Intersects, hit2 \in Intersects, np1 \in SmallPoints, np2 \in SmallPoints :
                  smallRet' = SmallCrossings(smallRet, hit1, np1, hit2, np2)
            /\ IF idx = nEdges
               THEN /\ pc' = "done"
                    /\ ret' = smallRet'
                    /\ idx' = 0
               ELSE /\ idx' = idx + 1
                    /\ UNCHANGED <<pc, ret>>
            /\ UNCHANGED <<angleVars, escaped, same, geomsCCW, geomsCW, ccwBoundary,
                           cwBoundary, newAll, distances, myExtended, shape>>
    /\ UNCHANGED <<seen, containerVars, convertVars, twoCallVars, firstRun, nodeVars, geom, maxAngle, defaultCalls, smallCalls, defRet,
                   warnings, passes, erased, iterInvalid>>

----------------------------------------------------------------------------
(* NBNodeShapeComputer::computeNodeShapeDefault, entry *)

\* a boundary line as NBEdge::getCCWBoundaryLine / getCWBoundaryLine builds it from
\* the current centerline; built is the number of centerline points it was built from
Boundary(e, side) == [src |-> e, side |-> side, built |-> Len(geom[e]), sameEnd |-> FALSE]
\* the raw centerline used in place of a boundary line
Center(e) == [src |-> e, side |-> "center", built |-> Len(geom[e]), sameEnd |-> FALSE]

computeNodeShapeDefault ==
    /\ pc = "default"
    /\ IF nEdges < 2
       THEN /\ pc' = "returned"
            /\ UNCHANGED <<ccwBoundary, cwBoundary>>
       ELSE /\ pc' = "join"
            /\ cwBoundary' = [e \in Edges |-> e]
            /\ ccwBoundary' = [e \in Edges |-> e]
    /\ defRet' = <<>>
    /\ UNCHANGED <<seen, containerVars, convertVars, twoCallVars, firstRun, nodeVars, angleVars, geom, maxAngle, defaultCalls, smallCalls, smallRet, ret,
                   warnings, escaped, same, geomsCCW, geomsCW, newAll, passes, erased,
                   iterInvalid, trimVars>>

----------------------------------------------------------------------------
(* NBNodeShapeComputer::badIntersection *)

\* what the geometry kernel reports about two centerlines over their common length,
\* in tenths of a length unit: the largest, the smallest and the first of the
\* point distances, the threshold (one lane width) and the distance threshold
\* (half the sum of the total widths plus POSITION_EPS)
BadGeoms == {
    [maxD |-> 10,  minD |-> 0,  startD |-> 0,  thr |-> 32, mdt |-> 33],
    [maxD |-> 100, minD |-> 20, startD |-> 50, thr |-> 32, mdt |-> 33],
    [maxD |-> 100, minD |-> 50, startD |-> 50, thr |-> 32, mdt |-> 33],
    [maxD |-> 100, minD |-> 0,  startD |-> 0,  thr |-> 32, mdt |-> 33] }

badIntersection(g, absAngleDiff) ==
    LET onTop == g.maxD < g.thr
        parallelDistant == g.minD > g.mdt
        curvingTowards == g.startD > g.mdt /\ g.minD < g.mdt
    IN  onTop \/ curvingTowards \/ (parallelDistant /\ absAngleDiff < 5)

----------------------------------------------------------------------------
(* NBNodeShapeComputer::joinSameDirectionEdges *)

\* pr[e] is <<l.atan2DegreeAngle(), the angle at the lookahead point>> of edge e
angleDiff(pr, i, j) == pr[i][1] - pr[j][1]
differentDirs(i, j) == (incoming[i] /\ ~incoming[j]) \/ (~incoming[i] /\ incoming[j])
angleDiffFurther(pr, i, j) == pr[i][2] - pr[j][2]
ambiguousGeometry(pr, i, j) ==
    \/ (angleDiff(pr, i, j) > 0 /\ angleDiffFurther(pr, i, j) < 0)
    \/ (angleDiff(pr, i, j) < 0 /\ angleDiffFurther(pr, i, j) > 0)

\* the pairs of the two nested loops
LoopPairs == {p \in Edges \X Edges : p[1] < p[2]}
\* the pairs for which badIntersection is evaluated
BadAsked(pr) == {p \in LoopPairs : /\ Abs(angleDiff(pr, p[1], p[2])) < 20
                                   /\ ~differentDirs(p[1], p[2])
                                   /\ ~ambiguousGeometry(pr, p[1], p[2])}

InSeq(x, v) == \E k \in 1..Len(v) : v[k] = x

\* same[a].push_back(b) unless b is found in same[a]
AddPartner(s, a, b) ==
    LET s1 == Touch(s, a, <<>>)
    IN  IF InSeq(b, s1[a]) THEN s1 ELSE Put(s1, a, Append(s1[a], b))

\* variant: the pair is recorded for the second edge only
JoinPairBackward(s, i, j, pr, g) ==
    IF /\ Abs(angleDiff(pr, i, j)) < 20
       /\ \/ differentDirs(i, j)
          \/ ambiguousGeometry(pr, i, j)
          \/ badIntersection(g[<<i, j>>], Abs(angleDiff(pr, i, j)))
    THEN AddPartner(s, j, i)
    ELSE s

\* variant: the pair is recorded for the first edge only
JoinPairOneWay(s, i, j, pr, g) ==
    IF /\ Abs(angleDiff(pr, i, j)) < 20
       /\ \/ differentDirs(i, j)
          \/ ambiguousGeometry(pr, i, j)
          \/ badIntersection(g[<<i, j>>], Abs(angleDiff(pr, i, j)))
    THEN AddPartner(s, i, j)
    ELSE s

JoinPair(s, i, j, pr, g) ==
    IF /\ Abs(angleDiff(pr, i, j)) < 20
       /\ \/ differentDirs(i, j)
          \/ ambiguousGeometry(pr, i, j)
          \/ badIntersection(g[<<i, j>>], Abs(angleDiff(pr, i, j)))
    THEN AddPartner(AddPartner(s, i, j), j, i)
    ELSE s

RECURSIVE JoinLoop(_, _, _, _, _)
JoinLoop(s, i, j, pr, g) ==
    IF i > nEdges - 1 THEN s
    ELSE IF j > nEdges THEN JoinLoop(s, i + 1, i + 2, pr, g)
    ELSE JoinLoop(JoinPair(s, i, j, pr, g), i, j + 1, pr, g)

\* the unguarded boundary computations of one pass of the outer loop
G1Throws(i) == IF incoming[i] THEN Throws(i, "ccw") ELSE Throws(i, "cw")
InnerThrows(i) == \E j \in (i + 1)..nEdges : Throws(j, "ccw") \/ Throws(j, "cw")
JoinThrowsAt(i) == G1Throws(i) \/ InnerThrows(i)
JoinThrows == \E i \in 1..(nEdges - 1) : JoinThrowsAt(i)
JoinThrowLine ==
    LET i == CHOOSE k \in 1..(nEdges - 1) :
                 JoinThrowsAt(k) /\ \A m \in 1..(k - 1) : ~JoinThrowsAt(m)
    IN  IF G1Throws(i) THEN (IF incoming[i] THEN 606 ELSE 607)
        ELSE IF \E j \in (i + 1)..nEdges : Throws(j, "ccw") THEN 619 ELSE 620
\* the outer-loop passes that are at least begun
JoinBegun == {i \in 1..(nEdges - 1) : \A m \in 1..(i - 1) : ~JoinThrowsAt(m)}
\* the guarded computations (try / catch) that log a warning
JoinWarnings == Cardinality({p \in JoinBegun \X Sides : Throws(p[1], p[2])})

GuardedBoundary(e, side) == IF Throws(e, side) THEN Center(e) ELSE Boundary(e, side)

\* profiles: what the first segments and lookahead points of the edges can measure
JoinEdges(profiles) ==
    /\ warnings' = warnings + JoinWarnings
    /\ IF JoinThrows
       THEN /\ Escape(JoinThrowLine)
            /\ UNCHANGED <<passes>>
       ELSE /\ \E pr \in profiles :
                  /\ dirAngle' = [e \in Edges |-> pr[e][1]]
                  /\ furtherAngle' = [e \in Edges |-> pr[e][2]]
                  /\ \E g \in [BadAsked(pr) -> BadGeoms] :
                         same' = JoinLoop(EmptyMap, 1, 2, pr, g)
            /\ geomsCCW' = [e \in Edges |-> GuardedBoundary(e, "ccw")]
            /\ geomsCW' = [e \in Edges |-> GuardedBoundary(e, "cw")]
            /\ newAll' = [k \in 1..nEdges |-> k]
            /\ pc' = "unique"
            /\ UNCHANGED <<escaped, smallRet, ccwBoundary, cwBoundary, trimVars, passes>>
    /\ UNCHANGED <<seen, containerVars, convertVars, twoCallVars, firstRun, nodeVars, geom, maxAngle, defaultCalls, smallCalls, defRet, ret,
                   erased, iterInvalid>>

joinSameDirectionEdges ==
    /\ pc = "join"
    /\ JoinEdges([Edges -> Profiles])

----------------------------------------------------------------------------
(* computeSameEnd: both lines are cut to share their near-node end *)
computeSameEnd(l) == [l EXCEPT !.sameEnd = TRUE]

----------------------------------------------------------------------------
(* NBNodeShapeComputer::computeUniqueDirectionList, one pass of while (changed) *)

\* variant: only the front of the list is looked at
FindAtFront(list, e) == IF Len(list) > 0 /\ list[1] = e THEN 1 ELSE 0

\* find(newAll.begin(), newAll.end(), e): the position of e, 0 for newAll.end()
Find(list, e) == IF InSeq(e, list) THEN CHOOSE k \in 1..Len(list) : list[k] = e ELSE 0

\* variant: the partner stays in the list
EraseNothing(list, k) == list

\* newAll.erase(k)
Erase(list, k) == [m \in 1..(Len(list) - 1) |-> IF m < k THEN list[m] ELSE list[m + 1]]

\* variant: the boundaries are exchanged with the partner instead of copied from it
AdoptExchanging(st, i2, j) ==
    IF incoming[i2]
    THEN IF incoming[j] THEN st
         ELSE [st EXCEPT !.gCW = [@ EXCEPT ![i2] = computeSameEnd(st.gCW[j]),
                                           ![j] = st.gCW[i2]],
                         !.cwB = [@ EXCEPT ![i2] = j],
                         !.gCCW = [@ EXCEPT ![i2] = computeSameEnd(@)]]
    ELSE IF incoming[j]
         THEN [st EXCEPT !.ccwB = [@ EXCEPT ![i2] = j],
                         !.gCCW = [@ EXCEPT ![i2] = computeSameEnd(st.gCCW[j]),
                                            ![j] = st.gCCW[i2]],
                         !.gCW = [@ EXCEPT ![i2] = computeSameEnd(@)]]
         ELSE st

\* variant: the direction of the partner alone decides
AdoptByPartner(st, i2, j) ==
    IF incoming[j]
    THEN [st EXCEPT !.ccwB = [@ EXCEPT ![i2] = j],
                    !.gCCW = [@ EXCEPT ![i2] = computeSameEnd(st.gCCW[j])],
                    !.gCW = [@ EXCEPT ![i2] = computeSameEnd(@)]]
    ELSE [st EXCEPT !.gCW = [@ EXCEPT ![i2] = computeSameEnd(st.gCW[j])],
                    !.cwB = [@ EXCEPT ![i2] = j],
                    !.gCCW = [@ EXCEPT ![i2] = computeSameEnd(@)]]

\* the boundary the scanned edge i2 takes over from its partner j
Adopt(st, i2, j) ==
    IF incoming[i2]
    THEN IF incoming[j] THEN st
         ELSE [st EXCEPT !.gCW = [@ EXCEPT ![i2] = computeSameEnd(st.gCW[j])],
                         !.cwB = [@ EXCEPT ![i2] = j],
                         !.gCCW = [@ EXCEPT ![i2] = computeSameEnd(@)]]
    ELSE IF incoming[j]
         THEN [st EXCEPT !.ccwB = [@ EXCEPT ![i2] = j],
                         !.gCCW = [@ EXCEPT ![i2] = computeSameEnd(st.gCCW[j])],
                         !.gCW = [@ EXCEPT ![i2] = computeSameEnd(@)]]
         ELSE st

\* the loop over the partners other[n..] of the edge at scan position p
RECURSIVE Partners(_, _, _, _)
Partners(st, p, other, n) ==
    IF n > Len(other) THEN st
    ELSE LET j == other[n]
             k == Find(st.list, j)
         IN  IF k = 0 THEN Partners(st, p, other, n + 1)
             ELSE IF p > Len(st.list) THEN [st EXCEPT !.inval = TRUE]
             ELSE LET a == Adopt(st, st.list[p], j)
                      b == [a EXCEPT !.list = Erase(a.list, k),
                                     !.gone = @ \cup {j},
                                     !.changed = TRUE,
                                     !.inval = @ \/ k <= p]
                  IN  Partners(b, p, other, n + 1)

\* the for loop: scan until an edge with a partner in the list was handled
RECURSIVE Scan(_, _)
Scan(st, p) ==
    IF st.changed \/ p > Len(st.list) THEN st
    ELSE LET e == st.list[p]
             other == IF e \in DOMAIN same THEN same[e] ELSE <<>>
         IN  Scan(Partners(st, p, other, 1), p + 1)

UniquePass ==
    Scan([list |-> newAll, gCW |-> geomsCW, gCCW |-> geomsCCW, cwB |-> cwBoundary,
          ccwB |-> ccwBoundary, gone |-> erased, changed |-> FALSE, inval |-> iterInvalid], 1)

computeUniqueDirectionList ==
    /\ pc = "unique"
    /\ passes <= nEdges
    /\ LET st == UniquePass
       IN  /\ newAll' = st.list
           /\ geomsCW' = st.gCW
           /\ geomsCCW' = st.gCCW
           /\ cwBoundary' = st.cwB
           /\ ccwBoundary' = st.ccwB
           /\ erased' = st.gone
           /\ iterInvalid' = st.inval
           /\ pc' = IF st.changed THEN "unique" ELSE "merged"
    /\ passes' = passes + 1
    /\ UNCHANGED <<seen, containerVars, convertVars, twoCallVars, firstRun, nodeVars, angleVars, geom, callVars, same, trimVars>>

(* computeUniqueDirectionList called once more with the relation same and the maps
   the first call left; the whole call is one step *)

\* the while loop: passes are made until one changes nothing
RECURSIVE UniqueLoop(_)
UniqueLoop(st) ==
    LET r == Scan([st EXCEPT !.changed = FALSE], 1)
        counted == [r EXCEPT !.n = @ + 1]
    IN  IF r.changed THEN UniqueLoop(counted) ELSE counted

recomputeUniqueDirectionList ==
    /\ pc = "merged"
    /\ LET st == UniqueLoop([list |-> [k \in 1..nEdges |-> k], gCW |-> geomsCW,
                             gCCW |-> geomsCCW, cwB |-> cwBoundary, ccwB |-> ccwBoundary,
                             gone |-> {}, changed |-> TRUE, inval |-> FALSE, n |-> 0])
       IN  /\ newAll' = st.list
           /\ geomsCW' = st.gCW
           /\ geomsCCW' = st.gCCW
           /\ cwBoundary' = st.cwB
           /\ ccwBoundary' = st.ccwB
           /\ erased' = st.gone
           /\ iterInvalid' = st.inval
           /\ passes' = st.n
    /\ pc' = "remerged"
    /\ UNCHANGED <<seen, containerVars, convertVars, twoCallVars, firstRun, nodeVars, angleVars, geom, callVars, same, trimVars>>

(* computeNodeShapeDefault: fewer than two directions are not handled *)
checkDirections ==
    /\ pc = "merged"
    /\ IF Len(newAll) < 2
       THEN /\ pc' = "returned"
            /\ defRet' = <<>>
            /\ DropDefaultLocals
       ELSE /\ pc' = "pass1"
            /\ idx' = 1
            /\ UNCHANGED <<defRet, same, geomsCCW, geomsCW, ccwBoundary, cwBoundary, newAll,
                           distances, myExtended, shape>>
    /\ DropAngles
    /\ UNCHANGED <<seen, containerVars, convertVars, twoCallVars, firstRun, nodeVars, geom, maxAngle, defaultCalls, smallCalls, smallRet, ret,
                   warnings, escaped, passes, erased, iterInvalid>>

----------------------------------------------------------------------------
(* NBNodeShapeComputer::initNeighbors *)

\* variant: the last entry has itself as clockwise neighbour
cwiOfNoWrap(list, pos) == IF pos = Len(list) THEN pos ELSE pos + 1

\* positions of the clockwise and the counter-clockwise neighbour
cwiOf(list, pos) == IF pos = Len(list) THEN 1 ELSE pos + 1
ccwiOf(list, pos) == IF pos = 1 THEN Len(list) ELSE pos - 1

\* a gap angle brought back once into the range, twoPI being 3600
Wrap(a) ==
    LET a1 == IF a < 0 THEN a + 3600 ELSE a
    IN  IF a1 > 3600 THEN a1 - 3600 ELSE a1

\* the bias of a simple continuation, DEG2RAD(45.) being 450
Bias(simple, a) == IF simple /\ a < 450 THEN a + 3600 ELSE a

ccadOf(simple, angleI, angleCCW) ==
    Bias(simple, Wrap(IF angleI > angleCCW THEN angleI - angleCCW
                      ELSE 3600 - angleCCW + angleI))

cadOf(simple, angleI, angleCW) ==
    Bias(simple, Wrap(IF angleI > angleCW THEN 3600 - angleI + angleCW
                      ELSE angleCW - angleI))

\* what a call of initNeighbors for the direction at position pos of list sets: the
\* neighbours (as positions and as edges) and the two gap angles, which are also
\* given as they are before the last two statements add the bias
initNeighbors(list, pos, simple, angleI, angleCCW, angleCW) ==
    [cwi |-> cwiOf(list, pos), ccwi |-> ccwiOf(list, pos),
     cw |-> list[cwiOf(list, pos)], ccw |-> list[ccwiOf(list, pos)],
     ccadRaw |-> ccadOf(FALSE, angleI, angleCCW), cadRaw |-> cadOf(FALSE, angleI, angleCW),
     ccad |-> ccadOf(simple, angleI, angleCCW), cad |-> cadOf(simple, angleI, angleCW)]

----------------------------------------------------------------------------
(* computeNodeShapeDefault, first loop: one direction per step *)

\* variant: the tolerance of a simple continuation is used for every node
AlmostParallelStrict(simple, sameNeighbour, ccad, cad) ==
    sameNeighbour /\ Abs(ccad - cad) * 1000 < 57296

\* only two directions and they are almost parallel: 0.1 rad is 57.296 tenths of a degree
AlmostParallel(simple, sameNeighbour, ccad, cad) ==
    /\ sameNeighbour
    /\ \/ (simple /\ Abs(ccad - cad) * 1000 < 57296)
       \/ (~simple /\ Abs(ccad - cad) < 225)

\* variant: a direction whose boundaries intersect neither neighbour gets no distance
TrimGeneralLeavingGaps(d, i, cwi, ccwi, simple, ccad, cad, hitP, offP, hitS, offS) ==
    IF hitP \/ hitS THEN Put(d, i, radius + offP) ELSE d

\* the outer boundaries are intersected directly.  P is the boundary towards the
\* nearer neighbour (counter-clockwise when ccad < cad), S the other one;
\* hit: the boundaries intersect, off: intersectsAtLengths2D(...)[0]
TrimGeneral(d, i, cwi, ccwi, simple, ccad, cad, hitP, offP, hitS, offS) ==
    IF ~simple
    THEN IF hitP
         THEN LET d1 == Put(d, i, radius + offP)
              IN  IF cwi # ccwi /\ hitS
                  THEN LET a1 == d1[i]
                           a2 == radius + offS
                       IN  IF ccad > 1350 /\ cad > 1350
                           THEN LET d2 == Touch(Touch(d1, cwi, 0), ccwi, 0)
                                    mmin == Min2(d2[cwi], d2[ccwi])
                                IN  IF mmin > 100
                                    THEN Put(d2, i, 5 + 100 - (mmin - 100))
                                    ELSE d2
                           \* POSITION_EPS is a tenth of a length unit
                           ELSE IF a2 * 10 > a1 * 10 + 1 /\ a2 - a1 < 10
                                THEN Put(d1, i, a2)
                                ELSE d1
                  ELSE d1
         ELSE IF cwi # ccwi /\ hitS
              THEN Put(d, i, radius + offS)
              ELSE Put(d, i, 100 + radius)
    ELSE IF hitP THEN Put(d, i, offP) ELSE Put(d, i, 100)

\* variant: the mean position takes the place of the point at the node's end
ExtendCenterlineReplacing(g, inc, p) ==
    IF inc THEN [g EXCEPT ![Len(g)] = p] ELSE [g EXCEPT ![1] = p]

\* the centerline with the mean position added at the node's end
ExtendCenterline(g, inc, p) ==
    IF inc THEN push_back_noDoublePos(g, p) ELSE push_front_noDoublePos(g, p)

\* variant: the new centerline is given to every edge of the network
setGeometryOfAll(g, e, line) == [x \in DOMAIN g |-> line]

\* variant: the new centerline is also given to the edge two further on in the network
setGeometryOfTwo(g, e, line) ==
    [x \in DOMAIN g |-> IF x = e \/ x = e + 2 THEN line ELSE g[x]]

\* (*i)->setGeometry(g)
setGeometry(g, e, line) == [g EXCEPT ![e] = line]

\* variant: the centerline is extended whatever the offset of the mean position
NotReachedAlways(dist) == TRUE

\* even the extrapolated boundary does not reach the mean position
NotReached(dist) == dist < 0

\* the loop body for the direction i at position idx: angleI, angleCCW, angleCW are
\* the angles initNeighbors reads, p is the mean position, dists what
\* nearest_offset_to_point2D(p) can answer
Pass1Direction(i, cwi, ccwi, angleI, angleCCW, angleCW, p, dists) ==
    LET ccad == ccadOf(simpleCont, angleI, angleCCW)
        cad == cadOf(simpleCont, angleI, angleCW)
    IN  IF AlmostParallel(simpleCont, cwi = ccwi, ccad, cad)
        THEN \E dist \in dists :
               IF NotReached(dist)
               THEN IF Throws(i, "ccw") \/ Throws(i, "cw")
                    THEN /\ geom' = setGeometry(geom, i,
                                        ExtendCenterline(geom[i], incoming[i], p))
                         /\ Escape(IF Throws(i, "ccw") THEN 284 ELSE 286)
                    ELSE /\ geom' = setGeometry(geom, i,
                                        ExtendCenterline(geom[i], incoming[i], p))
                         /\ geomsCCW' = [geomsCCW EXCEPT ![i] =
                                        [Boundary(i, "ccw") EXCEPT !.built = Len(geom'[i])]]
                         /\ geomsCW' = [geomsCW EXCEPT ![i] =
                                        [Boundary(i, "cw") EXCEPT !.built = Len(geom'[i])]]
                         /\ distances' = Put(distances, i, 100)
                         /\ myExtended' = myExtended \cup {i}
                         /\ UNCHANGED <<angleVars, escaped, smallRet, same,
                                        ccwBoundary, cwBoundary, newAll, shape>>
                         /\ IF idx = Len(newAll)
                            THEN pc' = "pass2" /\ idx' = 1
                            ELSE pc' = pc /\ idx' = idx + 1
               ELSE /\ distances' = Put(distances, i,
                                        IF simpleCont THEN dist ELSE dist + radius)
                    /\ UNCHANGED <<geom, angleVars, escaped, smallRet, same, geomsCCW,
                                   geomsCW, ccwBoundary, cwBoundary, newAll,
                                   myExtended, shape>>
                    /\ IF idx = Len(newAll)
                       THEN pc' = "pass2" /\ idx' = 1
                       ELSE pc' = pc /\ idx' = idx + 1
        ELSE \E hitCCW \in Intersects, hitCW \in Intersects,
                offCCW \in IntersectOffsets, offCW \in IntersectOffsets :
               /\ distances' =
                     IF ccad < cad
                     THEN TrimGeneral(distances, i, cwi, ccwi, simpleCont, ccad, cad,
                                      hitCCW, offCCW, hitCW, offCW)
                     ELSE TrimGeneral(distances, i, cwi, ccwi, simpleCont, ccad, cad,
                                      hitCW, offCW, hitCCW, offCCW)
               /\ UNCHANGED <<geom, angleVars, escaped, smallRet, same, geomsCCW,
                              geomsCW, ccwBoundary, cwBoundary, newAll, myExtended,
                              shape>>
               /\ IF idx = Len(newAll)
                  THEN pc' = "pass2" /\ idx' = 1
                  ELSE pc' = pc /\ idx' = idx + 1

pass1 ==
    /\ pc = "pass1"
    /\ idx \in 1..Len(newAll)
    /\ LET i == newAll[idx]
           cwi == newAll[cwiOf(newAll, idx)]
           ccwi == newAll[ccwiOf(newAll, idx)]
       IN  \E angleI \in BoundAngles, angleCCW \in BoundAngles :
           \E angleCW \in (IF cwi = ccwi THEN {angleCCW} ELSE BoundAngles) :
              Pass1Direction(i, cwi, ccwi, angleI, angleCCW, angleCW,
                             MeanPoint, NearestOffsets)
    /\ UNCHANGED <<seen, containerVars, convertVars, twoCallVars, firstRun, nodeVars, maxAngle, defaultCalls, smallCalls, defRet, ret,
                   warnings, passes, erased, iterInvalid>>

\* boundary angles that give two opposite directions gap differences of 0, 10, 20
\* and 80 degrees, and neighbours a gap of 5, 35 and 40 degrees
GapAngles == {0, 1400, 1750, 1800}

\* the loop body as in pass1, with the locals of the pass kept in seen: what
\* initNeighbors set and the offset of the mean position
pass1Observed ==
    /\ pc = "pass1"
    /\ idx \in 1..Len(newAll)
    /\ LET i == newAll[idx]
           cwi == newAll[cwiOf(newAll, idx)]
           ccwi == newAll[ccwiOf(newAll, idx)]
       IN  \E angleI \in GapAngles, angleCCW \in GapAngles, dist \in NearestOffsets :
           \E angleCW \in (IF cwi = ccwi THEN {angleCCW} ELSE GapAngles) :
              /\ Pass1Direction(i, cwi, ccwi, angleI, angleCCW, angleCW, MeanPoint, {dist})
              /\ seen' = [what |-> "pass1", dist |-> dist,
                          set |-> initNeighbors(newAll, idx, simpleCont,
                                                angleI, angleCCW, angleCW)]
    /\ UNCHANGED <<containerVars, convertVars, twoCallVars, firstRun, nodeVars, maxAngle,
                   defaultCalls, smallCalls, defRet, ret, warnings, passes, erased,
                   iterInvalid>>

----------------------------------------------------------------------------
(* NBNodeShapeComputer::replaceLastChecking / replaceFirstChecking *)

MovedPoint == "D"       \* the end of the line moved to the side (decenter)

\* near: the end of g is closer to counterPos than the width of the counter lanes
replaceLastChecking(g, decenter, near, counterPos) ==
    LET g1 == IF near THEN [g EXCEPT ![Len(g)] = counterPos]
              ELSE push_back_noDoublePos(g, counterPos)
    IN  IF decenter THEN [g1 EXCEPT ![Len(g1)] = MovedPoint] ELSE g1

replaceFirstChecking(g, decenter, near, counterPos) ==
    LET g1 == IF near THEN [g EXCEPT ![1] = counterPos]
              ELSE push_front_noDoublePos(g, counterPos)
    IN  IF decenter THEN [g1 EXCEPT ![1] = MovedPoint] ELSE g1

\* one call of replaceLastChecking (incoming edge) or replaceFirstChecking (outgoing
\* edge) on the centerline of an incident edge, as the second loop makes them
replaceChecking ==
    /\ pc = "replace"
    /\ \E e \in Edges, decenter \in BOOLEAN, near \in BOOLEAN, counterPos \in Points :
          geom' = [geom EXCEPT ![e] =
                      IF incoming[e]
                      THEN replaceLastChecking(@, decenter, near, counterPos)
                      ELSE replaceFirstChecking(@, decenter, near, counterPos)]
    /\ pc' = "replaced"
    /\ UNCHANGED <<seen, containerVars, convertVars, twoCallVars, firstRun, nodeVars, angleVars, callVars, mergeVars, trimVars>>

----------------------------------------------------------------------------
(* computeNodeShapeDefault, second loop: one direction per step *)

\* what the kernel and the edges answer during one pass of the loop body
Pass2Oracles == [decenter : BOOLEAN, near : BOOLEAN, counterPos : Points, wider : BOOLEAN]

\* the direction's own centerline; ok = FALSE is the return of an empty polygon
Pass2Own(i, cwi, ccwi, o) ==
    LET need == IF incoming[i]
                THEN (IF ~incoming[ccwi] /\ ~incoming[cwi] THEN cwi ELSE ccwi)
                ELSE (IF incoming[ccwi] /\ incoming[cwi] THEN ccwi ELSE cwi)
    IN  IF need \notin DOMAIN distances
        THEN [ok |-> FALSE, geom |-> geom]
        ELSE [ok |-> TRUE,
              geom |-> [geom EXCEPT ![i] =
                  IF incoming[i]
                  THEN replaceLastChecking(@, o.decenter, o.near, o.counterPos)
                  ELSE replaceFirstChecking(@, o.decenter, o.near, o.counterPos)]]

\* the centerline of the edge b that supplies a boundary of the direction
Pass2Supplier(g, b, need, o) ==
    IF need \notin DOMAIN distances
    THEN [ok |-> FALSE, geom |-> g]
    ELSE [ok |-> TRUE,
          geom |-> [g EXCEPT ![b] =
              IF incoming[b]
              THEN replaceLastChecking(@, o.decenter, o.near, o.counterPos)
              ELSE replaceFirstChecking(@, o.decenter, o.near, o.counterPos)]]

Pass2Body(i, cwi, ccwi, o) ==
    LET own == Pass2Own(i, cwi, ccwi, o)
        cwb == cwBoundary[i]
        ccwb == ccwBoundary[i]
        cwS == IF cwb # i THEN Pass2Supplier(own.geom, cwb, cwi, o)
               ELSE [ok |-> TRUE, geom |-> own.geom]
        ccwS == IF ccwb # i
                THEN Pass2Supplier(cwS.geom, ccwb, IF incoming[ccwb] THEN ccwi ELSE cwi, o)
                ELSE [ok |-> TRUE, geom |-> cwS.geom]
        offset == IF o.wider \/ ccwb # cwb THEN 5 ELSE 0
    IN  IF ~own.ok THEN [kind |-> "empty", geom |-> own.geom]
        ELSE IF ~cwS.ok THEN [kind |-> "empty", geom |-> cwS.geom]
        ELSE IF Throws(cwb, "cw")
             THEN [kind |-> "throw", geom |-> cwS.geom, line |-> IF cwb # i THEN 472 ELSE 474]
        ELSE IF ~ccwS.ok THEN [kind |-> "empty", geom |-> ccwS.geom]
        ELSE IF Throws(ccwb, "ccw")
             THEN [kind |-> "throw", geom |-> ccwS.geom, line |-> IF ccwb # i THEN 503 ELSE 505]
        ELSE [kind |-> "ok", geom |-> ccwS.geom,
              gCW |-> [src |-> cwb, side |-> "cw", built |-> Len(ccwS.geom[cwb]),
                       sameEnd |-> TRUE],
              gCCW |-> [src |-> ccwb, side |-> "ccw", built |-> Len(ccwS.geom[ccwb]),
                        sameEnd |-> TRUE],
              ext |-> (myExtended \cup {i})
                         \cup (IF cwb # i THEN {cwb} ELSE {})
                         \cup (IF ccwb # i THEN {ccwb} ELSE {}),
              dist |-> 100 + offset]

pass2 ==
    /\ pc = "pass2"
    /\ idx \in 1..Len(newAll)
    /\ LET i == newAll[idx]
           cwi == newAll[cwiOf(newAll, idx)]
           ccwi == newAll[ccwiOf(newAll, idx)]
       IN  IF i \in DOMAIN distances
           THEN /\ IF idx = Len(newAll)
                   THEN pc' = "build" /\ idx' = 1
                   ELSE pc' = pc /\ idx' = idx + 1
                /\ UNCHANGED <<geom, angleVars, defRet, escaped, smallRet, same, geomsCCW,
                               geomsCW, ccwBoundary, cwBoundary, newAll, distances,
                               myExtended, shape>>
           ELSE \E o \in Pass2Oracles :
                  LET r == Pass2Body(i, cwi, ccwi, o)
                  IN  /\ geom' = r.geom
                      /\ IF r.kind = "empty"
                         THEN /\ pc' = "returned"
                              /\ defRet' = <<>>
                              /\ DropDefaultLocals
                              /\ UNCHANGED <<angleVars, escaped, smallRet>>
                         ELSE IF r.kind = "throw"
                         THEN /\ Escape(r.line)
                              /\ UNCHANGED defRet
                         ELSE /\ geomsCW' = [geomsCW EXCEPT ![i] = r.gCW]
                              /\ geomsCCW' = [geomsCCW EXCEPT ![i] = r.gCCW]
                              /\ myExtended' = r.ext
                              /\ distances' = Put(distances, i, r.dist)
                              /\ IF idx = Len(newAll)
                                 THEN pc' = "build" /\ idx' = 1
                                 ELSE pc' = pc /\ idx' = idx + 1
                              /\ UNCHANGED <<angleVars, defRet, escaped, smallRet, same,
                                             ccwBoundary, cwBoundary, newAll, shape>>
    /\ UNCHANGED <<seen, containerVars, convertVars, twoCallVars, firstRun, nodeVars, maxAngle, defaultCalls, smallCalls, ret,
                   warnings, passes, erased, iterInvalid>>

----------------------------------------------------------------------------
(* NBNodeShapeComputer::getSmoothCorner *)

\* what NBNode::computeSmoothShape may answer when asked for n points from begPoint
\* to endPoint: the curve asked for, or the two end points alone
SmoothShapes(begPoint, endPoint, n) ==
    {<<begPoint, endPoint>>}
        \cup {<<begPoint>> \o mid \o <<endPoint>> : mid \in [1..(n - 2) -> CurvePoints]}

\* variant: only the first point of the curve is removed
getSmoothCornerKeepingEnd(detail, curve) ==
    IF detail > 0
    THEN IF Len(curve) > 2 THEN SubSeq(curve, 2, Len(curve)) ELSE <<>>
    ELSE <<>>

\* curve is the answer of computeSmoothShape(begShape, endShape, cornerDetail + 2, ...)
getSmoothCorner(detail, curve) ==
    IF detail > 0
    THEN IF Len(curve) > 2 THEN SubSeq(curve, 2, Len(curve) - 1) ELSE <<>>
    ELSE <<>>

\* the ways a call getSmoothCorner(.., begPoint, endPoint, detail) can go: the number
\* of points it asks computeSmoothShape for (0: it does not ask), the curve it gets
\* and the contribution it returns
CornerCalls(detail, begPoint, endPoint) ==
    IF detail > 0
    THEN {[asked |-> detail + 2, curve |-> c, ret |-> getSmoothCorner(detail, c)] :
              c \in SmoothShapes(begPoint, endPoint, detail + 2)}
    ELSE {[asked |-> 0, curve |-> <<>>, ret |-> getSmoothCorner(detail, <<>>)]}

\* the corner between the end of the polygon v and the point endPoint
Corners(v, endPoint) == {c.ret : c \in CornerCalls(cornerDetail, v[Len(v)], endPoint)}

----------------------------------------------------------------------------
(* computeNodeShapeDefault, build loop: one direction per step *)

\* ps, qs: what positionAtOffset2D can answer on the counter-clockwise and on the
\* clockwise boundary of the direction
BuildDirection(ps, qs) ==
    /\ \E p \in ps, q \in qs :
          \E corner \in (IF idx # 1 THEN Corners(shape, p) ELSE {<<>>}) :
             LET dist == Touch(distances, newAll[idx], 0)
                 s1 == push_back_noDoublePos(shape \o corner, p)
                 s2 == push_back_noDoublePos(s1, q)
             IN  IF idx = Len(newAll)
                 THEN \E last \in Corners(s2, s2[1]) :
                         /\ defRet' = s2 \o last
                         /\ pc' = "returned"
                         /\ DropDefaultLocals
                 ELSE /\ shape' = s2
                      /\ distances' = dist
                      /\ idx' = idx + 1
                      /\ UNCHANGED <<pc, defRet, same, geomsCCW, geomsCW, ccwBoundary,
                                     cwBoundary, newAll, myExtended>>
    /\ UNCHANGED <<containerVars, convertVars, twoCallVars, firstRun, nodeVars, angleVars, geom, maxAngle, defaultCalls, smallCalls,
                   smallRet, ret, warnings, escaped, passes, erased, iterInvalid>>

build ==
    /\ pc = "build"
    /\ idx \in 1..Len(newAll)
    /\ BuildDirection(Points, Points)
    /\ UNCHANGED seen

\* PositionVector::reverse, for a boundary line kept together with its orientation
reverse(s) == [s EXCEPT !.reversed = ~@]

\* the begShape arguments of the getSmoothCorner calls made in pass pos of the loop, in
\* the order of the calls; a line taken from geomsCW runs the way it was stored
CornerBegShapes(pos) ==
    LET stored(e) == [line |-> geomsCW[e], reversed |-> FALSE]
    IN  (IF pos # 1 THEN <<reverse(stored(newAll[pos - 1]))>> ELSE <<>>)
            \o (IF pos = Len(newAll) THEN <<stored(newAll[Len(newAll)])>> ELSE <<>>)

\* the tail getSmoothCorner hands to computeSmoothShape for the argument begShape
CornerTail(detail, begShape) == IF detail > 0 THEN reverse(begShape) ELSE begShape

\* one pass of the build loop, with the arguments of its getSmoothCorner calls kept
buildObserved ==
    /\ pc = "build"
    /\ idx \in 1..Len(newAll)
    /\ BuildDirection(Points, Points)
    /\ seen' = [what |-> "build", pos |-> idx, last |-> Len(newAll),
                detail |-> cornerDetail,
                begShapes |-> CornerBegShapes(idx),
                tails |-> [k \in DOMAIN CornerBegShapes(idx) |->
                              CornerTail(cornerDetail, CornerBegShapes(idx)[k])]]

----------------------------------------------------------------------------
(* NBNodeShapeComputer::compute, after computeNodeShapeDefault returned *)

\* variants: the test accepts two points / accepts any non-empty polygon
TooFewPointsTwo(v) == Len(v) < 2
TooFewPointsOne(v) == Len(v) < 1

\* ret.size() < 3
TooFewPoints(v) == Len(v) < 3

computeFallback ==
    /\ pc = "returned"
    /\ IF TooFewPoints(defRet)
       THEN /\ pc' = "small"
            /\ smallCalls' = smallCalls + 1
            /\ idx' = 1
            /\ UNCHANGED ret
       ELSE /\ pc' = "done"
            /\ ret' = defRet
            /\ UNCHANGED <<smallCalls, idx>>
    /\ UNCHANGED <<seen, containerVars, convertVars, twoCallVars, firstRun, nodeVars, angleVars, geom, maxAngle, defaultCalls, defRet, smallRet,
                   warnings, escaped, mergeVars, distances, myExtended, shape>>

----------------------------------------------------------------------------
(* compute is called again for the same node; the edges keep their centerlines *)
computeAgain ==
    /\ pc = "done"
    /\ ~firstRun.ran
    /\ firstRun' = [ran |-> TRUE, ret |-> ret, geom |-> geom]
    /\ pc' = "compute"
    /\ maxAngle' = 0
    /\ defaultCalls' = 0
    /\ smallCalls' = 0
    /\ defRet' = <<>>
    /\ smallRet' = <<>>
    /\ ret' = <<>>
    /\ passes' = 0
    /\ erased' = {}
    /\ iterInvalid' = FALSE
    /\ UNCHANGED <<seen, containerVars, convertVars, twoCallVars, nodeVars, angleVars, geom, warnings, escaped, same,
                   geomsCCW, geomsCW, ccwBoundary, cwBoundary, newAll, trimVars>>

----------------------------------------------------------------------------
(* A straight road through the node: an incoming edge arriving from the left and an
   outgoing edge leaving to the right, both on the x axis.  A centerline is the
   sequence of the x coordinates of its points, a boundary runs beside its
   centerline, and a polygon point is <<x, side of the axis>>.  The polyline
   operations are those of the geometry kernel, restricted to this layout. *)

\* distances of the edges' ends from the node position
AxisGaps == {40, 200, 440}
AxisCenterlines ==
    {[e \in 1..2 |-> IF e = 1 THEN <<-1000, -a>> ELSE <<b, 1000>>] :
         a \in AxisGaps, b \in AxisGaps}

InitAxis ==
    /\ nEdges = 2
    /\ incoming = [e \in 1..2 |-> e = 1]
    /\ simpleCont \in BOOLEAN
    /\ turning = FALSE
    /\ invalid = NoInvalid
    /\ cornerDetail = 0
    /\ radius \in Radii
    /\ geom \in AxisCenterlines
    /\ firstRun = NoRun
    /\ network = OneCall
    /\ calls = OneCall
    /\ data = NoData
    /\ converted = NotConverted
    /\ seen = NotSeen
    /\ NoContainer
    /\ InitCall

\* the end of the centerline g at the node and the point next to it
EndOf(g, inc) == IF inc THEN g[Len(g)] ELSE g[1]
NextToEndOf(g, inc) == IF inc THEN g[Len(g) - 1] ELSE g[2]
\* the direction in which the boundaries, taken as leaving the node, run
OutwardOf(g, inc) == IF NextToEndOf(g, inc) > EndOf(g, inc) THEN 1 ELSE -1
\* the first point of a boundary: the first segment is extrapolated by 100
BoundaryStartOf(g, inc) == EndOf(g, inc) - 100 * OutwardOf(g, inc)
\* the side of the axis a boundary runs on
SideOf(out, side) == IF (out = 1) = (side = "ccw") THEN 1 ELSE -1

NodeEnd(e) == EndOf(geom[e], incoming[e])
NextToEnd(e) == NextToEndOf(geom[e], incoming[e])
Outward(e) == OutwardOf(geom[e], incoming[e])
AxisBoundaryStart(e) == BoundaryStartOf(geom[e], incoming[e])
\* lineAt(0).atan2PositiveAngle() in tenths of a degree
AxisAngle(e) == IF Outward(e) = 1 THEN 0 ELSE 1800
\* lineAt(0).atan2DegreeAngle() of the first segment and at the lookahead point
AxisProfile == [e \in Edges |-> IF Outward(e) = 1 THEN <<0, 0>> ELSE <<180, 180>>]
\* the mean position p of the first loop
AxisMean(i, ccwi) ==
    IF ccwi \in myExtended
    THEN (2 * AxisBoundaryStart(ccwi)) \div 2
    ELSE (2 * AxisBoundaryStart(ccwi) + 2 * AxisBoundaryStart(i)) \div 4
\* nearest_offset_to_point2D: negative if the boundary does not reach the point
AxisNearestOffset(i, p) ==
    LET off == (p - AxisBoundaryStart(i)) * Outward(i)
    IN  IF off < 0 THEN -1 ELSE off
AxisSide(e, side) == SideOf(Outward(e), side)
\* positionAtOffset2D on a boundary of the direction the build loop is at
AxisPositions(side) ==
    IF pc = "build" /\ idx \in 1..Len(newAll)
    THEN LET e == newAll[idx]
             offset == IF e \in DOMAIN distances THEN distances[e] ELSE 0
         IN  {<<AxisBoundaryStart(e) + offset * Outward(e), AxisSide(e, side)>>}
    ELSE {}

joinOnAxis ==
    /\ pc = "join"
    /\ JoinEdges({AxisProfile})

pass1OnAxis ==
    /\ pc = "pass1"
    /\ idx \in 1..Len(newAll)
    /\ LET i == newAll[idx]
           cwi == newAll[cwiOf(newAll, idx)]
           ccwi == newAll[ccwiOf(newAll, idx)]
           p == AxisMean(i, ccwi)
       IN  Pass1Direction(i, cwi, ccwi, AxisAngle(i), AxisAngle(ccwi), AxisAngle(cwi),
                          p, {AxisNearestOffset(i, p)})
    /\ UNCHANGED <<seen, containerVars, convertVars, twoCallVars, firstRun, nodeVars, maxAngle, defaultCalls, smallCalls, defRet, ret,
                   warnings, passes, erased, iterInvalid>>

buildOnAxis ==
    /\ pc = "build"
    /\ idx \in 1..Len(newAll)
    /\ BuildDirection(AxisPositions("ccw"), AxisPositions("cw"))
    /\ UNCHANGED seen

----------------------------------------------------------------------------
(* Two calls of compute at once, for two nodes on one straight road.  Each call is
   cut where it reads or writes the centerline of an edge; what lies between works
   on the call's own locals.  On this layout no edges are joined and the two
   directions of a node are almost parallel. *)

Nodes == {1, 2}
\* myAllEdges of the two nodes, the incoming edge first: without and with a common edge
NetworkEdges == {<<<<1, 2>>, <<3, 4>>>>, <<<<1, 2>>, <<2, 3>>>>}
\* the centerlines: node 1 lies at 0, node 2 at 4000 or, with the common edge, at 2000
NetworkCenterlines(edges) ==
    IF edges[2][1] = 3
    THEN {[e \in 1..4 |-> CASE e = 1 -> <<-1000, -a>> [] e = 2 -> <<b, 1000>>
                             [] e = 3 -> <<3000, 4000 - c>> [] e = 4 -> <<4000 + d, 5000>>] :
              a \in AxisGaps, b \in AxisGaps, c \in AxisGaps, d \in AxisGaps}
    ELSE {[e \in 1..3 |-> CASE e = 1 -> <<-1000, -a>> [] e = 2 -> <<b, 2000 - c>>
                             [] e = 3 -> <<2000 + d, 3000>>] :
              a \in AxisGaps, b \in AxisGaps, c \in AxisGaps, d \in AxisGaps}
SharesEdge == \E k \in 1..2, m \in 1..2 : network.edges[1][k] = network.edges[2][m]

\* the locals of a call that has not started
NewCall == [pc |-> "join", idx |-> 0, start |-> EmptyMap, out |-> EmptyMap,
            g |-> <<>>, p |-> 0, dist |-> EmptyMap, ext |-> {}, ret |-> <<>>]

InitTwoCalls ==
    /\ nEdges = 2
    /\ incoming = [e \in 1..2 |-> e = 1]
    /\ simpleCont \in BOOLEAN
    /\ turning = FALSE
    /\ invalid = NoInvalid
    /\ cornerDetail = 0
    /\ radius \in Radii
    /\ firstRun = NoRun
    /\ \E edges \in NetworkEdges :
          /\ geom \in NetworkCenterlines(edges)
          /\ network = [edges |-> edges, centerlines |-> geom]
    /\ calls = [n \in Nodes |-> NewCall]
    /\ data = NoData
    /\ converted = NotConverted
    /\ seen = NotSeen
    /\ NoContainer
    /\ pc = "calls"
    /\ InitLocals

\* joinSameDirectionEdges: the boundaries of the node's edges are built from the
\* centerlines as they are now
CallJoin(n, st) ==
    LET es == network.edges[n]
        b(k) == BoundaryStartOf(st.geom[es[k]], k = 1)
        o(k) == OutwardOf(st.geom[es[k]], k = 1)
    IN  [st EXCEPT !.calls[n].start = Put(Put(EmptyMap, es[1], b(1)), es[2], b(2)),
                   !.calls[n].out = Put(Put(EmptyMap, es[1], o(1)), es[2], o(2)),
                   !.calls[n].pc = "pass1",
                   !.calls[n].idx = 1]

\* the call goes on to the next direction, or to the build loop after the last
CallAdvance(c) ==
    IF c.idx = 2 THEN [c EXCEPT !.pc = "build"] ELSE [c EXCEPT !.pc = "pass1", !.idx = 2]

\* first loop up to (*i)->getGeometry(): the offset of the mean position
CallPass1(n, st) ==
    LET c == st.calls[n]
        i == network.edges[n][c.idx]
        other == network.edges[n][3 - c.idx]
        p == IF other \in c.ext THEN (2 * c.start[other]) \div 2
             ELSE (2 * c.start[other] + 2 * c.start[i]) \div 4
        off == (p - c.start[i]) * c.out[i]
        dist == IF off < 0 THEN -1 ELSE off
    IN  IF NotReached(dist)
        THEN [st EXCEPT !.calls[n] = [c EXCEPT !.pc = "extend", !.p = p, !.g = st.geom[i]]]
        ELSE [st EXCEPT !.calls[n] =
                 CallAdvance([c EXCEPT !.dist = Put(@, i, IF simpleCont THEN dist
                                                          ELSE dist + radius)])]

\* first loop from (*i)->setGeometry(g) on: the centerline read before is extended
\* and stored, the boundaries of the edge are built again
CallExtend(n, st) ==
    LET c == st.calls[n]
        i == network.edges[n][c.idx]
        inc == c.idx = 1
        geom1 == setGeometry(st.geom, i, ExtendCenterline(c.g, inc, c.p))
    IN  [geom |-> geom1,
         calls |-> [st.calls EXCEPT ![n] =
             CallAdvance([c EXCEPT !.start = Put(@, i, BoundaryStartOf(geom1[i], inc)),
                                   !.out = Put(@, i, OutwardOf(geom1[i], inc)),
                                   !.dist = Put(@, i, 100),
                                   !.ext = @ \cup {i},
                                   !.g = <<>>])]]

\* build loop and the return of compute; the polygon has at least three points
CallBuild(n, st) ==
    LET c == st.calls[n]
        at(k, side) == LET e == network.edges[n][k]
                       IN  <<c.start[e] + c.dist[e] * c.out[e], SideOf(c.out[e], side)>>
        v1 == push_back_noDoublePos(<<at(1, "ccw")>>, at(1, "cw"))
        v2 == push_back_noDoublePos(push_back_noDoublePos(v1, at(2, "ccw")), at(2, "cw"))
    IN  [st EXCEPT !.calls[n].ret = v2, !.calls[n].pc = "done"]

CallStep(n, st) ==
    CASE st.calls[n].pc = "join" -> CallJoin(n, st)
      [] st.calls[n].pc = "pass1" -> CallPass1(n, st)
      [] st.calls[n].pc = "extend" -> CallExtend(n, st)
      [] st.calls[n].pc = "build" -> CallBuild(n, st)

\* one step of one of the two calls
callStep ==
    /\ pc = "calls"
    /\ \E n \in Nodes :
          /\ calls[n].pc # "done"
          /\ LET st == CallStep(n, [geom |-> geom, calls |-> calls])
             IN  geom' = st.geom /\ calls' = st.calls
    /\ UNCHANGED <<seen, containerVars, convertVars, network, firstRun, nodeVars, angleVars, pc, callVars, mergeVars, trimVars>>

\* the call for node n run from where it is to its end with no step of the other call
RECURSIVE CallToEnd(_, _)
CallToEnd(n, st) ==
    IF st.calls[n].pc = "done" THEN st ELSE CallToEnd(n, CallStep(n, st))

----------------------------------------------------------------------------
(* TplConvert: conversion of 0-terminated char arrays.  A char array is a    *)
(* sequence of one-character strings, data.null is the 0 pointer.  A long    *)
(* long is kept as its sign and its decimal digits without leading zeros     *)
(* (0 is the empty sequence), so that no value is cut by the model checker's *)
(* own integers.                                                             *)

UpperCase == <<"A", "B", "C", "D", "E", "F", "G", "H", "I", "J", "K", "L", "M",
               "N", "O", "P", "Q", "R", "S", "T", "U", "V", "W", "X", "Y", "Z">>
LowerCase == <<"a", "b", "c", "d", "e", "f", "g", "h", "i", "j", "k", "l", "m",
               "n", "o", "p", "q", "r", "s", "t", "u", "v", "w", "x", "y", "z">>
DigitChars == <<"0", "1", "2", "3", "4", "5", "6", "7", "8", "9">>

\* ::tolower
tolower(c) ==
    IF \E k \in 1..Len(UpperCase) : UpperCase[k] = c
    THEN LowerCase[CHOOSE k \in 1..Len(UpperCase) : UpperCase[k] = c]
    ELSE c

\* akt < '0' || akt > '9' is false
IsDigit(c) == \E k \in 1..Len(DigitChars) : DigitChars[k] = c
\* akt - 48
DigitValue(c) == (CHOOSE k \in 1..Len(DigitChars) : DigitChars[k] = c) - 1

\* the char array of a decimal number given digit by digit
Chars(ds) == [k \in 1..Len(ds) |-> DigitChars[ds[k] + 1]]

\* magnitudes: a > b
Greater(a, b) ==
    \/ Len(a) > Len(b)
    \/ /\ Len(a) = Len(b)
       /\ \E k \in 1..Len(a) :
             /\ DigitValue(a[k]) > DigitValue(b[k])
             /\ \A j \in 1..(k - 1) : a[j] = b[j]

\* std::numeric_limits<int>::max(), the magnitude of std::numeric_limits<int>::min()
IntMax == Chars(<<2, 1, 4, 7, 4, 8, 3, 6, 4, 7>>)
IntMinMagnitude == Chars(<<2, 1, 4, 7, 4, 8, 3, 6, 4, 8>>)
\* the largest long long
LongMax == Chars(<<9, 2, 2, 3, 3, 7, 2, 0, 3, 6, 8, 5, 4, 7, 7, 5, 8, 0, 7>>)

Zero == [neg |-> FALSE, digits |-> <<>>]
\* how a call of a converter ends
Returned(v) == [kind |-> "returned", value |-> v]
Thrown(e, v) == [kind |-> e, value |-> v]

\* the strings _2bool compares the lower-case copy with
TrueStrings == {<<"1">>, <<"y", "e", "s">>, <<"t", "r", "u", "e">>, <<"o", "n">>,
                <<"x">>, <<"t">>}
FalseStrings == {<<"0">>, <<"n", "o">>, <<"f", "a", "l", "s", "e">>, <<"o", "f", "f">>,
                 <<"-">>, <<"f">>}

\* TplConvert::_2bool
_2bool(d) ==
    IF d.null \/ Len(d.chars) = 0
    THEN Thrown("EmptyData", FALSE)
    ELSE LET s == [k \in 1..Len(d.chars) |-> tolower(d.chars[k])]
         IN  IF s \in TrueStrings THEN Returned(TRUE)
             ELSE IF s \in FalseStrings THEN Returned(FALSE)
             ELSE Thrown("BoolFormatException", FALSE)

\* ret *= 10
Times10(r) == IF Len(r) = 0 THEN r ELSE Append(r, "0")
\* ret += akt - 48, after ret *= 10
PlusDigit(r10, akt) ==
    IF Len(r10) = 0 THEN (IF akt = "0" THEN <<>> ELSE <<akt>>)
    ELSE [r10 EXCEPT ![Len(r10)] = akt]

\* the for loop of _2long from position i on (i counts from 0 as in the code); a
\* signed overflow of ret is undefined behaviour
RECURSIVE DigitLoop(_, _, _)
DigitLoop(chars, i, r) ==
    IF i >= Len(chars) THEN [kind |-> "end", i |-> i, ret |-> r]
    ELSE LET akt == chars[i + 1]
             r10 == Times10(r)
         IN  IF Greater(r10, LongMax) THEN [kind |-> "undefined", i |-> i, ret |-> r]
             ELSE IF ~IsDigit(akt) THEN [kind |-> "NumberFormatException", i |-> i, ret |-> r]
             ELSE IF Greater(PlusDigit(r10, akt), LongMax)
                  THEN [kind |-> "undefined", i |-> i, ret |-> r]
             ELSE DigitLoop(chars, i + 1, PlusDigit(r10, akt))

\* what a call can do after a signed overflow: it returns some long long
AfterOverflow ==
    {Returned([neg |-> n, digits |-> m]) :
        n \in BOOLEAN, m \in {<<"1">>, <<"7">>, IntMax, IntMinMagnitude, LongMax}}
    \cup {Returned(Zero)}

\* TplConvert::_2long: the set of ways the call can end
_2long(d) ==
    IF d.null \/ Len(d.chars) = 0
    THEN {Thrown("EmptyData", Zero)}
    ELSE LET plus == d.chars[1] = "+"
             minus == d.chars[1] = "-"
             i0 == (IF plus THEN 1 ELSE 0) + (IF minus THEN 1 ELSE 0)
             loop == DigitLoop(d.chars, i0, <<>>)
         IN  CASE loop.kind = "undefined" -> AfterOverflow
               [] loop.kind = "NumberFormatException" ->
                      {Thrown("NumberFormatException", Zero)}
               [] loop.kind = "end" /\ loop.i = 0 -> {Thrown("EmptyData", Zero)}
               [] OTHER -> {Returned([neg |-> minus /\ Len(loop.ret) > 0,
                                      digits |-> loop.ret])}

\* result > std::numeric_limits<int>::max() || result < std::numeric_limits<int>::min()
OutsideInt(v) ==
    IF v.neg THEN Greater(v.digits, IntMinMagnitude) ELSE Greater(v.digits, IntMax)

\* TplConvert::_2int: the set of ways the call can end
_2int(d) ==
    {IF o.kind = "returned" /\ OutsideInt(o.value)
     THEN Thrown("NumberFormatException", Zero) ELSE o : o \in _2long(d)}

(* Inputs of the converters *)

MaxChars == 3          \* length of the char arrays built from NumberChars

\* the char arrays handed to the converters: the 0 pointer, every upper / lower case
\* spelling of the strings _2bool knows and of some it does not know, all strings of
\* up to MaxChars characters of signs, digits and a letter, and numbers around the
\* limits of int and long long
Inputs ==
    LET toupper(c) ==
            IF \E k \in 1..Len(LowerCase) : LowerCase[k] = c
            THEN UpperCase[CHOOSE k \in 1..Len(LowerCase) : LowerCase[k] = c]
            ELSE c
        spellings(w) ==
            {[k \in 1..Len(w) |-> IF m[k] THEN toupper(w[k]) ELSE w[k]] :
                m \in [1..Len(w) -> BOOLEAN]}
        others == {<<"2">>, <<"y">>, <<"n">>, <<"t", "r">>, <<"o", "f">>, <<"1", "0">>,
                   <<"t", "r", "u", "e", "e">>, <<"+">>, <<" ", "1">>}
        bools == UNION {spellings(w) : w \in TrueStrings \cup FalseStrings \cup others}
        short == UNION {[1..n -> {"+", "-", "0", "7", "a"}] : n \in 0..MaxChars}
        nine == <<"9">>
        zeros == [k \in 1..20 |-> "0"]
        aboveLongMax == PlusDigit(Times10(SubSeq(LongMax, 1, 18)), "8")
        long == {IntMax, IntMinMagnitude, <<"-">> \o IntMinMagnitude,
                 <<"-">> \o IntMax \o nine, <<"+">> \o IntMax, LongMax,
                 <<"-">> \o LongMax, Times10(LongMax), aboveLongMax,
                 <<"-">> \o aboveLongMax, LongMax \o <<"a">>, zeros \o <<"7">>,
                 zeros \o IntMinMagnitude}
    IN  {NoData} \cup {[null |-> FALSE, chars |-> x] : x \in bools \cup short \cup long}

InitConvert ==
    /\ nEdges = 1
    /\ incoming = [e \in 1..1 |-> TRUE]
    /\ simpleCont = FALSE
    /\ turning = FALSE
    /\ invalid = NoInvalid
    /\ cornerDetail = 0
    /\ radius \in Radii
    /\ geom = [e \in (1..nEdges) \cup OtherEdges |-> Centerline]
    /\ firstRun = NoRun
    /\ network = OneCall
    /\ calls = OneCall
    /\ InitLocals
    /\ pc = "convert"
    /\ data \in Inputs
    /\ converted = NotConverted
    /\ seen = NotSeen
    /\ NoContainer

\* a call of the converter named by, which ends as result says
Convert(by, result) ==
    /\ pc = "convert"
    /\ converted' = [by |-> by, result |-> result]
    /\ pc' = "converted"
    /\ UNCHANGED <<seen, containerVars, data, twoCallVars, firstRun, nodeVars, angleVars, geom, callVars,
                   mergeVars, trimVars>>

convert2bool == pc = "convert" /\ Convert("_2bool", _2bool(data))
convert2long == pc = "convert" /\ \E o \in _2long(data) : Convert("_2long", o)
convert2int == pc = "convert" /\ \E o \in _2int(data) : Convert("_2int", o)

----------------------------------------------------------------------------
(* Single calls of helper functions: the arguments are in seen, no node is computed *)

MaxDirections == 4     \* incident edges the direction lists handed to initNeighbors are taken from

NoNode ==
    /\ nEdges = 1
    /\ incoming = [e \in 1..1 |-> TRUE]
    /\ simpleCont = FALSE
    /\ turning = FALSE
    /\ invalid = NoInvalid
    /\ cornerDetail = 0
    /\ radius \in Radii
    /\ geom = [e \in (1..nEdges) \cup OtherEdges |-> Centerline]
    /\ firstRun = NoRun
    /\ network = OneCall
    /\ calls = OneCall
    /\ data = NoData
    /\ converted = NotConverted
    /\ InitLocals

\* the direction lists of two and more entries: the edges of a set in the order of
\* myAllEdges
DirectionLists ==
    {CHOOSE f \in [1..Cardinality(S) -> S] :
         \A k \in 1..Cardinality(S), m \in 1..Cardinality(S) : k < m => f[k] < f[m] :
     S \in {T \in SUBSET (1..MaxDirections) : Cardinality(T) >= 2}}

\* atan2PositiveAngle of the boundaries, tenths of a degree in [0, 3600)
PositiveAngles == {0, 400, 1400, 1800, 3599}

InitNeighbors ==
    /\ NoNode
    /\ NoContainer
    /\ pc = "initNeighbors"
    /\ \E list \in DirectionLists :
          seen \in [what : {"current"}, list : {list}, pos : 1..Len(list), simple : BOOLEAN,
                    angleI : PositiveAngles, angleCCW : PositiveAngles,
                    angleCW : PositiveAngles]

\* one call of initNeighbors
callInitNeighbors ==
    /\ pc = "initNeighbors"
    /\ seen' = [what |-> "initNeighbors", list |-> seen.list, pos |-> seen.pos,
                simple |-> seen.simple,
                equal |-> seen.angleI = seen.angleCCW \/ seen.angleI = seen.angleCW,
                set |-> initNeighbors(seen.list, seen.pos, seen.simple, seen.angleI,
                                      seen.angleCCW, seen.angleCW)]
    /\ pc' = "neighbors"
    /\ UNCHANGED <<containerVars, convertVars, twoCallVars, firstRun, nodeVars, angleVars,
                   geom, callVars, mergeVars, trimVars>>

\* option junctions.corner-detail as handed to getSmoothCorner
Details == {-1, 0, 1, 2, 3}

InitCorner ==
    /\ NoNode
    /\ NoContainer
    /\ pc = "getSmoothCorner"
    /\ seen \in [what : {"corner"}, detail : Details, begPoint : Points, endPoint : Points]

\* one call of getSmoothCorner
callGetSmoothCorner ==
    /\ pc = "getSmoothCorner"
    /\ \E c \in CornerCalls(seen.detail, seen.begPoint, seen.endPoint) :
          seen' = [what |-> "getSmoothCorner", detail |-> seen.detail,
                   begPoint |-> seen.begPoint, endPoint |-> seen.endPoint, call |-> c]
    /\ pc' = "corner"
    /\ UNCHANGED <<containerVars, convertVars, twoCallVars, firstRun, nodeVars, angleVars,
                   geom, callVars, mergeVars, trimVars>>

----------------------------------------------------------------------------
(* MSUpdateEachTimestepContainer< UpdateEachTimestep >.  Instances are numbered in   *)
(* the order of their construction; the member functions are called through the    *)
(* pointer getInstance returned, on the instance that is alive.                     *)

MaxItems == 3          \* calls of addItemToUpdate on one instance
MaxInstances == 2      \* instances constructed

Items == {"a", "b"}    \* the objects with a member updateEachTimestep

InitContainer ==
    /\ NoNode
    /\ NoContainer
    /\ seen = NotSeen
    /\ pc = "container"

\* variant: an item that is in the container already is not added again
push_back_once(v, item) == IF InSeq(item, v) THEN v ELSE Append(v, item)

\* std::vector::push_back
push_back(v, item) == Append(v, item)

\* for_each(first, last, mem_fun(&UpdateEachTimestep::updateEachTimestep)): the
\* items the member is invoked on, in the order of the invocations
RECURSIVE for_each(_, _)
for_each(v, k) == IF k > Len(v) THEN <<>> ELSE <<v[k]>> \o for_each(v, k + 1)

getInstance ==
    /\ pc = "container"
    /\ IF instanceM = 0
       THEN /\ made < MaxInstances
            /\ made' = made + 1
            /\ instanceM' = made + 1
            /\ containerM' = <<>>
            /\ added' = <<>>
       ELSE UNCHANGED <<made, instanceM, containerM, added>>
    /\ got' = instanceM'
    /\ seen' = [what |-> "getInstance"]
    /\ UNCHANGED <<updates, convertVars, twoCallVars, firstRun, nodeVars, angleVars, geom,
                   pc, callVars, mergeVars, trimVars>>

addItemToUpdate ==
    /\ pc = "container"
    /\ instanceM # 0
    /\ Len(containerM) < MaxItems
    /\ \E item \in Items :
          /\ containerM' = push_back(containerM, item)
          /\ added' = Append(added, item)
    /\ seen' = [what |-> "addItemToUpdate"]
    /\ UNCHANGED <<instanceM, made, got, updates, convertVars, twoCallVars, firstRun,
                   nodeVars, angleVars, geom, pc, callVars, mergeVars, trimVars>>

updateAll ==
    /\ pc = "container"
    /\ instanceM # 0
    /\ updates' = for_each(containerM, 1)
    /\ seen' = [what |-> "updateAll"]
    /\ UNCHANGED <<instanceM, containerM, made, got, added, convertVars, twoCallVars,
                   firstRun, nodeVars, angleVars, geom, pc, callVars, mergeVars, trimVars>>

\* ~MSUpdateEachTimestepContainer
destroyContainer ==
    /\ pc = "container"
    /\ instanceM # 0
    /\ containerM' = <<>>
    /\ instanceM' = 0
    /\ added' = <<>>
    /\ seen' = [what |-> "destroy"]
    /\ UNCHANGED <<made, got, updates, convertVars, twoCallVars, firstRun, nodeVars,
                   angleVars, geom, pc, callVars, mergeVars, trimVars>>

----------------------------------------------------------------------------
Next ==
    \/ compute
    \/ computeNodeShapeSmall
    \/ computeNodeShapeDefault
    \/ joinSameDirectionEdges
    \/ computeUniqueDirectionList
    \/ checkDirections
    \/ pass1
    \/ pass2
    \/ build
    \/ computeFallback

Spec == Init /\ [][Next]_vars

\* the whole call, every enabled step is eventually taken (single-threaded, no suspension)
LiveSpec == Init /\ [][Next]_vars /\ WF_vars(Next)

\* the direction merger alone, for nodes with more edges
InitMerge == InitNode(MaxMergeEdges) /\ InitCall

NextMerge ==
    \/ compute
    \/ computeNodeShapeDefault
    \/ joinSameDirectionEdges
    \/ computeUniqueDirectionList

SpecMerge == InitMerge /\ [][NextMerge]_vars

\* the direction merger followed by a second call of computeUniqueDirectionList
NextRemerge ==
    \/ compute
    \/ computeNodeShapeDefault
    \/ joinSameDirectionEdges
    \/ computeUniqueDirectionList
    \/ recomputeUniqueDirectionList

SpecRemerge == InitMerge /\ [][NextRemerge]_vars

\* the whole call, and next to it single calls of replaceLastChecking /
\* replaceFirstChecking on the centerlines of the node's edges
InitReplace == InitNode(MaxEdges) /\ pc = "replace" /\ InitLocals

SpecCenterline == (Init \/ InitReplace) /\ [][Next \/ replaceChecking]_vars

\* the whole call for a node with three incident edges, where a direction has two
\* different neighbours
InitTrim == InitNode(3) /\ nEdges = 3 /\ InitCall

SpecTrim == InitTrim /\ [][Next]_vars

\* compute called twice for a node on a straight road
NextTwice ==
    \/ compute
    \/ computeNodeShapeDefault
    \/ joinOnAxis
    \/ computeUniqueDirectionList
    \/ checkDirections
    \/ pass1OnAxis
    \/ pass2
    \/ buildOnAxis
    \/ computeFallback
    \/ computeAgain

SpecTwice == InitAxis /\ [][NextTwice]_vars

\* two calls of compute, for two nodes, with their steps interleaved
SpecTwoCalls == InitTwoCalls /\ [][callStep]_vars

\* single calls of the converters of TplConvert
NextConvert ==
    \/ convert2bool
    \/ convert2long
    \/ convert2int

SpecConvert == InitConvert /\ [][NextConvert]_vars

\* the call up to the end of the first loop, for nodes with one or two edges, with
\* the locals of every pass of the loop kept
InitPass1 == InitNode(2) /\ InitCall

NextPass1 ==
    \/ compute
    \/ computeNodeShapeDefault
    \/ joinSameDirectionEdges
    \/ computeUniqueDirectionList
    \/ checkDirections
    \/ pass1Observed

SpecPass1 == InitPass1 /\ [][NextPass1]_vars

\* the whole call for nodes with one or two edges, with the getSmoothCorner calls of
\* every pass of the build loop kept
NextBuild ==
    \/ compute
    \/ computeNodeShapeSmall
    \/ computeNodeShapeDefault
    \/ joinSameDirectionEdges
    \/ computeUniqueDirectionList
    \/ checkDirections
    \/ pass1
    \/ pass2
    \/ buildObserved
    \/ computeFallback

SpecBuild == InitPass1 /\ [][NextBuild]_vars

\* single calls of initNeighbors
SpecNeighbors == InitNeighbors /\ [][callInitNeighbors]_vars

\* single calls of getSmoothCorner
SpecCorner == InitCorner /\ [][callGetSmoothCorner]_vars

\* calls of the members of MSUpdateEachTimestepContainer in any order
NextContainer ==
    \/ getInstance
    \/ addItemToUpdate
    \/ updateAll
    \/ destroyContainer

SpecContainer == InitContainer /\ [][NextContainer]_vars

----------------------------------------------------------------------------
(* Properties *)

Range(v) == {v[k] : k \in 1..Len(v)}
PartnersOf(e) == IF e \in DOMAIN same THEN Range(same[e]) ELSE {}
\* the difference of two directions given in degrees, measured around the circle
AngularDifference(a, b) == Min2(Abs(a - b), 360 - Abs(a - b))

\* C1: at a node with exactly one incident edge computeNodeShapeDefault is never
\* entered, and the polygon compute returns is the one computeNodeShapeSmall built
C1_DeadEndUsesSmall ==
    nEdges = 1 =>
        /\ defaultCalls = 0
        /\ pc = "done" => (smallCalls = 1 /\ ret = smallRet)

C1_Witness == nEdges = 1 /\ pc = "done" /\ smallCalls = 1 /\ Len(ret) = 2

\* C2 as stated: at a node with exactly one incident edge the returned polygon has
\* exactly 2 vertices
C2_ExactlyTwoVertices == (nEdges = 1 /\ pc = "done") => Len(ret) = 2

\* C2 as amended: at a node with exactly one incident edge the returned polygon has
\* at most 2 vertices, one for each boundary the normal crosses
C2_AtMostTwoVertices == (nEdges = 1 /\ pc = "done") => Len(ret) <= 2

C2_Witness == nEdges = 1 /\ pc = "done" /\ Len(ret) = 1

\* C3: at a simple continuation whose largest deviation among those of at most 22.5
\* degrees is at most 22.5 degrees, computeNodeShapeDefault is not run
C3_ContinuationUsesSmall ==
    (pc # "compute" /\ simpleCont /\ maxAngle <= 225) => defaultCalls = 0

\* C4: at a node with two incident edges, one of them incoming and a turn-around onto
\* the outgoing one, computeNodeShapeDefault is never entered and the polygon compute
\* returns is the one computeNodeShapeSmall built
C4_TurnaroundUsesSmall ==
    (nEdges = 2 /\ Cardinality(Incoming) = 1 /\ turning) =>
        /\ defaultCalls = 0
        /\ pc = "done" => (smallCalls = 1 /\ ret = smallRet)

C4_Witness ==
    nEdges = 2 /\ Cardinality(Incoming) = 1 /\ turning /\ pc = "done" /\ Len(ret) > 0

\* C5: when no rule selects computeNodeShapeSmall, computeNodeShapeDefault runs exactly
\* once; its polygon is returned unchanged if it has at least 3 points, otherwise the
\* polygon of computeNodeShapeSmall is returned
C5_DefaultThenFallback ==
    (pc = "done" /\ ~singleDirection /\ ~(simpleCont /\ maxAngle > 225)) =>
        /\ defaultCalls = 1
        /\ Len(defRet) >= 3 => (ret = defRet /\ smallCalls = 0)
        /\ Len(defRet) < 3 => (ret = smallRet /\ smallCalls = 1)

C5_Witness ==
    pc = "done" /\ defaultCalls = 1 /\ smallCalls = 1 /\ Len(defRet) = 2 /\ ret # defRet

\* C6 as stated: a polygon returned from the default path has at least 3 pairwise
\* distinct points
C6_ThreeDistinctPoints ==
    (pc = "done" /\ defaultCalls = 1 /\ smallCalls = 0) => Cardinality(Range(ret)) >= 3

\* C6 as amended: a polygon returned from the default path has at least 3 points, and
\* a default result with fewer than 3 points is replaced by the fallback
C6_ThreePoints ==
    /\ (pc = "done" /\ defaultCalls = 1 /\ smallCalls = 0) => Len(ret) >= 3
    /\ (pc = "done" /\ defaultCalls = 1 /\ Len(defRet) < 3) => smallCalls = 1

C6_Witness ==
    /\ pc = "done" /\ defaultCalls = 1 /\ smallCalls = 0
    /\ Len(ret) = 3 /\ Cardinality(Range(ret)) = 2

\* C7: no InvalidArgument of a boundary-line computation leaves compute
C7_NoExceptionEscapes == escaped = 0 /\ pc # "thrown"

\* C8: compute terminates; every pass of the loop of computeUniqueDirectionList that
\* is followed by another pass removes an edge from the list, and the loop makes at
\* most as many passes as the node has incident edges
Terminated == pc \in {"done", "thrown"}
PassRemovesEdge == (pc = "unique" /\ pc' = "unique") => Len(newAll') < Len(newAll)
C8_Terminates == [](passes <= nEdges) /\ [][PassRemovesEdge]_vars /\ <>Terminated

C8_Witness == pc = "done" /\ passes >= 2 /\ erased # {}

\* C9: an incoming and an outgoing edge whose initial directions differ by less than
\* 20 degrees are never both in the direction list computeUniqueDirectionList returns
C9_CloseOppositePairMerged ==
    pc = "merged" =>
        \A a \in Edges, b \in Edges :
            (incoming[a] /\ ~incoming[b]
                 /\ AngularDifference(dirAngle[a], dirAngle[b]) < 20)
                => ~(a \in Range(newAll) /\ b \in Range(newAll))

\* C10: after joinSameDirectionEdges the relation same is symmetric, irreflexive and
\* free of duplicates
C10_SameSymmetric ==
    pc \in {"unique", "merged"} =>
        \A a \in Edges :
            /\ \A b \in Edges : b \in PartnersOf(a) <=> a \in PartnersOf(b)
            /\ a \notin PartnersOf(a)
            /\ a \in DOMAIN same => Cardinality(Range(same[a])) = Len(same[a])

C10_Witness ==
    pc = "unique" /\ \E a \in DOMAIN same : Len(same[a]) = 2

\* C11: a second call of computeUniqueDirectionList with the same relation same and
\* the maps the first call left returns the same direction list and leaves the
\* supplier maps cwBoundary / ccwBoundary and the boundary maps as they were
SecondCallChangesNothing ==
    (pc = "merged" /\ pc' = "remerged") =>
        /\ newAll' = newAll
        /\ cwBoundary' = cwBoundary
        /\ ccwBoundary' = ccwBoundary
        /\ geomsCW' = geomsCW
        /\ geomsCCW' = geomsCCW
IsInfix(a, b) ==
    \E k \in 0..(Len(b) - Len(a)) : SubSeq(b, k + 1, k + Len(a)) = a

\* C12 as stated: every change of an edge centerline, in the two loops of
\* computeNodeShapeDefault and in replaceLastChecking / replaceFirstChecking, keeps
\* the old centerline as a contiguous part of the new one
CenterlineOnlyGrows == \A e \in Edges : IsInfix(geom[e], geom'[e])
AllButNodeEndKept(e) ==
    LET g == geom[e]
        h == geom'[e]
    IN  /\ Len(h) \in {Len(g), Len(g) + 1}
        /\ IF incoming[e]
           THEN SubSeq(h, 1, Len(g) - 1) = SubSeq(g, 1, Len(g) - 1)
           ELSE SubSeq(h, Len(h) - Len(g) + 2, Len(h)) = SubSeq(g, 2, Len(g))
CenterlineChange ==
    IF pc = "replace"
    THEN \A e \in Edges : AllButNodeEndKept(e)
    ELSE CenterlineOnlyGrows
C13_SecondRunSame ==
    firstRun.ran =>
        /\ geom = firstRun.geom
        /\ pc = "done" => ret = firstRun.ret

\* C13 as amended: a second call changes no centerline, and it returns the polygon
\* of the first call if the first call extended no centerline
C13_SecondRunKeepsCenterlines ==
    firstRun.ran =>
        /\ geom = firstRun.geom
        /\ (pc = "done" /\ firstRun.geom \in AxisCenterlines) => ret = firstRun.ret

C13_Witness ==
    /\ firstRun.ran /\ pc = "done"
    /\ geom = firstRun.geom /\ ret # firstRun.ret

\* C14: compute changes the centerline of no edge that is not incident to the node,
\* whichever of computeNodeShapeSmall and computeNodeShapeDefault it runs
C14_OnlyIncidentEdgesChange == \A e \in OtherEdges : geom[e] = Centerline

C14_Witness ==
    /\ pc = "done" /\ defaultCalls = 1
    /\ \E e \in Edges : geom[e] # Centerline

\* what two calls leave: the centerlines and the two polygons
Outcome(st) == [geom |-> st.geom, rets |-> [n \in Nodes |-> st.calls[n].ret]]
\* what the two calls leave when the call for node n runs first and the other after it
OneAfterTheOther(n) ==
    Outcome(CallToEnd(3 - n, CallToEnd(n, [geom |-> network.centerlines,
                                            calls |-> [m \in Nodes |-> NewCall]])))
\* a call holds a centerline it read for extending that the other call has changed since
ReadWhileChanged(n) == calls[n].pc = "extend" /\ calls[n].g # geom[network.edges[n][calls[n].idx]]

\* C15: two calls for nodes without a common edge leave, under every interleaving of
\* their steps, the centerlines and polygons they leave when run one after the
\* other, and neither holds a centerline the other has changed; only calls for
\* nodes with a common edge can hold such a centerline
C15_DisjointCallsIndependent ==
    /\ (~SharesEdge /\ \A n \in Nodes : calls[n].pc = "done") =>
           /\ Outcome([geom |-> geom, calls |-> calls]) = OneAfterTheOther(1)
           /\ Outcome([geom |-> geom, calls |-> calls]) = OneAfterTheOther(2)
    /\ \A n \in Nodes : ReadWhileChanged(n) => SharesEdge

C15_Witness == SharesEdge /\ \E n \in Nodes : ReadWhileChanged(n)

\* C16: when a direction needs the trim distance of a neighbour that has none,
\* computeNodeShapeDefault returns the empty polygon at once: the first loop never
\* goes on with a distance entry for a direction it has not reached yet
C16_MissingNeighbourAborts ==
    pc = "pass1" => \A k \in idx..Len(newAll) : newAll[k] \notin DOMAIN distances


\* the strings the contract of _2bool lists, in lower case
DocumentedTrue == {<<"1">>, <<"x">>, <<"t", "r", "u", "e">>, <<"y", "e", "s">>, <<"o", "n">>}
DocumentedFalse == {<<"0">>, <<"-">>, <<"f", "a", "l", "s", "e">>, <<"n", "o">>,
                    <<"o", "f", "f">>}
Lowered(chars) == [k \in 1..Len(chars) |-> tolower(chars[k])]

\* C17: _2bool returns true exactly for the spellings, in any case, of 1, x, true, yes
\* and on, false exactly for those of 0, -, false, no and off, throws EmptyData for the
\* 0 pointer and the empty string and BoolFormatException for every other string
C17_BoolContract ==
    converted.by = "_2bool" =>
        converted.result =
            IF data.null \/ Len(data.chars) = 0 THEN Thrown("EmptyData", FALSE)
            ELSE IF Lowered(data.chars) \in DocumentedTrue THEN Returned(TRUE)
            ELSE IF Lowered(data.chars) \in DocumentedFalse THEN Returned(FALSE)
            ELSE Thrown("BoolFormatException", FALSE)

\* the char array without its leading sign
Unsigned(chars) == IF chars[1] \in {"+", "-"} THEN Tail(chars) ELSE chars
\* an optional single sign followed by at least one decimal digit
DescribesInteger(chars) ==
    /\ Len(Unsigned(chars)) >= 1
    /\ \A k \in 1..Len(Unsigned(chars)) : IsDigit(Unsigned(chars)[k])
\* a digit string without its leading zeros
RECURSIVE StripZeros(_)
StripZeros(ds) ==
    IF Len(ds) > 0 /\ ds[1] = "0" THEN StripZeros(Tail(ds)) ELSE ds
\* the signed decimal value a char array describes
DescribedValue(chars) ==
    LET m == StripZeros(Unsigned(chars))
    IN  [neg |-> chars[1] = "-" /\ Len(m) > 0, digits |-> m]

\* C18: _2long throws EmptyData for the 0 pointer and the empty string,
\* NumberFormatException for every other string that is not an optional single sign
\* followed by at least one digit, and returns the signed decimal value otherwise;
\* _2int does the same and throws NumberFormatException for a value outside the int range
C18_IntegerContract ==
    converted.by \in {"_2long", "_2int"} =>
        converted.result =
            IF data.null \/ Len(data.chars) = 0 THEN Thrown("EmptyData", Zero)
            ELSE IF ~DescribesInteger(data.chars) THEN Thrown("NumberFormatException", Zero)
            ELSE IF converted.by = "_2int" /\ OutsideInt(DescribedValue(data.chars))
                 THEN Thrown("NumberFormatException", Zero)
            ELSE Returned(DescribedValue(data.chars))


\* the list keeps the order of myNode.myAllEdges, which is 1, 2, ..., nEdges
InIncidentOrder(list) ==
    /\ \A k \in 1..Len(list) : list[k] \in Edges
    /\ \A k \in 1..Len(list), m \in 1..Len(list) : k < m => list[k] < list[m]

\* C19: the list computeUniqueDirectionList returns is an order-preserving
\* sub-sequence of the incident edges, and no edge left in it is recorded in same as
\* a partner of another edge left in it
C19_ReturnedListIsFixpoint ==
    pc = "merged" =>
        /\ InIncidentOrder(newAll)
        /\ \A a \in Range(newAll), b \in Range(newAll) : b \notin PartnersOf(a)

C19_Witness ==
    /\ pc = "merged"
    /\ Len(newAll) >= 2
    /\ erased # {}
    /\ \E a \in Range(newAll) : PartnersOf(a) # {}


\* the edge the scan of a pass stops at: the first of the list with a partner in the list
HasScanned == \E k \in 1..Len(newAll) : PartnersOf(newAll[k]) \cap Range(newAll) # {}
ScannedEdge ==
    newAll[CHOOSE k \in 1..Len(newAll) :
               /\ PartnersOf(newAll[k]) \cap Range(newAll) # {}
               /\ \A m \in 1..(k - 1) : PartnersOf(newAll[m]) \cap Range(newAll) = {}]
\* the positions in same[e] of the partners of e that are in the list and are
\* incoming (inc) or outgoing (~inc)
FoundPartners(e, inc) ==
    {k \in 1..Len(same[e]) : same[e][k] \in Range(newAll) /\ incoming[same[e][k]] = inc}
\* the last of them, whose boundary is the one e is left with
LastFound(e, inc) ==
    same[e][CHOOSE k \in FoundPartners(e, inc) : \A m \in FoundPartners(e, inc) : m <= k]
\* e took the CW boundary of its outgoing partner / the CCW boundary of its incoming one
AdoptsCW(e) ==
    FoundPartners(e, FALSE) # {} =>
        /\ cwBoundary'[e] = LastFound(e, FALSE)
        /\ geomsCW'[e].src = geomsCW[LastFound(e, FALSE)].src
AdoptsCCW(e) ==
    FoundPartners(e, TRUE) # {} =>
        /\ ccwBoundary'[e] = LastFound(e, TRUE)
        /\ geomsCCW'[e].src = geomsCCW[LastFound(e, TRUE)].src
KeepsCW(e) == cwBoundary'[e] = cwBoundary[e] /\ geomsCW'[e].src = geomsCW[e].src
KeepsCCW(e) == ccwBoundary'[e] = ccwBoundary[e] /\ geomsCCW'[e].src = geomsCCW[e].src
PartnersRemoved(e) == Range(newAll') = Range(newAll) \ PartnersOf(e)

AdoptsWhateverItsDirection ==
    (pc = "unique" /\ HasScanned) =>
        /\ AdoptsCW(ScannedEdge)
        /\ AdoptsCCW(ScannedEdge)
        /\ PartnersRemoved(ScannedEdge)

\* C20: in a pass of computeUniqueDirectionList the scanned edge takes over the CW
\* boundary of each outgoing partner found in the list and the CCW boundary of each
\* incoming one, records it as the supplier of that side (the last found partner of a
\* kind is the one left recorded), and the partners are removed from the list,
\* whatever the direction of the scanned edge
C20_AdoptsForEveryCombination == [][AdoptsWhateverItsDirection]_vars

AdoptsFromOppositeDirection ==
    (pc = "unique" /\ HasScanned) =>
        /\ IF incoming[ScannedEdge]
           THEN AdoptsCW(ScannedEdge) /\ KeepsCCW(ScannedEdge)
           ELSE AdoptsCCW(ScannedEdge) /\ KeepsCW(ScannedEdge)
        /\ FoundPartners(ScannedEdge, ~incoming[ScannedEdge]) = {} =>
               KeepsCW(ScannedEdge) /\ KeepsCCW(ScannedEdge)
        /\ PartnersRemoved(ScannedEdge)

\* C20: an incoming scanned edge takes over the CW boundary of an outgoing partner
\* found in the list, an outgoing scanned edge the CCW boundary of an incoming one,
\* and records it as supplier; from a partner of its own direction it takes nothing
\* and keeps its boundaries and suppliers; every partner found is removed from the list
C20_AdoptsFromOppositeDirectionOnly == [][AdoptsFromOppositeDirection]_vars

C20_Witness ==
    \E e \in Range(newAll) :
        \E q \in erased \cap PartnersOf(e), r \in erased \cap PartnersOf(e) :
            /\ incoming[q] # incoming[e]
            /\ incoming[r] = incoming[e]
            /\ (cwBoundary[e] = q \/ ccwBoundary[e] = q)


\* C21: in a direction list of two or more entries the CW neighbour initNeighbors sets
\* is the next entry and the CCW neighbour the previous one, both wrapping around
\* the ends; the two are the same direction exactly when the list has two entries,
\* and neither is the direction itself
C21_NeighboursWrapAround ==
    seen.what = "initNeighbors" =>
        LET n == Len(seen.list)
        IN  /\ seen.set.cw = seen.list[(seen.pos % n) + 1]
            /\ seen.set.ccw = seen.list[((seen.pos + n - 2) % n) + 1]
            /\ (seen.set.cw = seen.set.ccw) <=> (n = 2)
            /\ seen.set.cw # seen.list[seen.pos]
            /\ seen.set.ccw # seen.list[seen.pos]

C21_Witness ==
    /\ seen.what = "initNeighbors"
    /\ Len(seen.list) >= 3
    /\ seen.pos = Len(seen.list)
    /\ seen.set.cw = seen.list[1]

\* C22: both gap angles initNeighbors computes are in [0, 2*pi) before the bias, also
\* when the angle of the direction equals that of a neighbour, and the bias adds
\* exactly 2*pi to a gap below 45 degrees at a simple continuation and nothing else
C22_GapsNormalised ==
    seen.what = "initNeighbors" =>
        /\ seen.set.ccadRaw >= 0 /\ seen.set.ccadRaw < 3600
        /\ seen.set.cadRaw >= 0 /\ seen.set.cadRaw < 3600
        /\ seen.set.ccad = IF seen.simple /\ seen.set.ccadRaw < 450
                           THEN seen.set.ccadRaw + 3600 ELSE seen.set.ccadRaw
        /\ seen.set.cad = IF seen.simple /\ seen.set.cadRaw < 450
                          THEN seen.set.cadRaw + 3600 ELSE seen.set.cadRaw


\* the two-direction near-parallel case as the pass that ends in the primed state saw it
NearParallelSeen ==
    /\ seen'.set.cw = seen'.set.ccw
    /\ IF simpleCont THEN Abs(seen'.set.ccad - seen'.set.cad) * 1000 < 57296
       ELSE Abs(seen'.set.ccad - seen'.set.cad) < 225
\* the centerline of edge e has the mean position added at the node's end
MeanPointAdded(e) ==
    geom'[e] = IF incoming[e] THEN Append(geom[e], MeanPoint) ELSE <<MeanPoint>> \o geom[e]
BoundariesRebuilt(e) ==
    /\ geomsCCW'[e] = [src |-> e, side |-> "ccw", built |-> Len(geom'[e]), sameEnd |-> FALSE]
    /\ geomsCW'[e] = [src |-> e, side |-> "cw", built |-> Len(geom'[e]), sameEnd |-> FALSE]

NearParallelPass ==
    (pc = "pass1" /\ idx \in 1..Len(newAll) /\ NearParallelSeen) =>
        LET i == newAll[idx]
        IN  IF seen'.dist < 0
            THEN /\ MeanPointAdded(i)
                 /\ \A e \in DOMAIN geom \ {i} : geom'[e] = geom[e]
                 /\ escaped' = 0 =>
                       /\ BoundariesRebuilt(i)
                       /\ distances'[i] = 100
                       /\ myExtended' = myExtended \cup {i}
            ELSE /\ geom' = geom
                 /\ geomsCCW' = geomsCCW
                 /\ geomsCW' = geomsCW
                 /\ myExtended' = myExtended
                 /\ distances'[i] = seen'.dist + (IF simpleCont THEN 0 ELSE radius)

NeighbourDistancesOnlyRead ==
    (pc = "pass1" /\ idx \in 1..Len(newAll) /\ pc' \in {"pass1", "pass2"}) =>
        \A e \in DOMAIN distances' \ {newAll[idx]} :
            e \in DOMAIN distances /\ distances'[e] = distances[e]

\* C24: when a pass of the first loop anchors the distance of a direction to the
\* minimum of the distances of its two neighbours, both neighbours have a distance
\* already, at every position of the list, and reading the two changes nothing in
\* the map: a pass of the first loop adds or changes the entry of its own direction
\* only (a neighbour without a distance is one the read adds an entry for)
C24_NeighboursResolvedWhenRead == [][NeighbourDistancesOnlyRead]_vars

\* C25: getSmoothCorner returns nothing when cornerDetail is 0 or less; otherwise it
\* asks for a curve of cornerDetail + 2 points and returns the curve it gets without
\* its first and its last point, which are the two join points
C25_CornerWithoutJoinPoints ==
    seen.what = "getSmoothCorner" =>
        IF seen.detail <= 0
        THEN seen.call.ret = <<>> /\ seen.call.asked = 0
        ELSE /\ seen.call.asked = seen.detail + 2
             /\ Len(seen.call.ret) = Len(seen.call.curve) - 2
             /\ \A k \in 1..Len(seen.call.ret) : seen.call.ret[k] = seen.call.curve[k + 1]
             /\ seen.call.curve[1] = seen.begPoint
             /\ seen.call.curve[Len(seen.call.curve)] = seen.endPoint

C25_Witness ==
    /\ seen.what = "getSmoothCorner"
    /\ seen.detail = 2
    /\ Len(seen.call.curve) = 4
    /\ Len(seen.call.ret) = 2

UpdatesEveryRegistration ==
    /\ seen'.what = "updateAll" =>
           /\ updates' = added
           /\ containerM' = containerM
           /\ added' = added
    /\ (seen'.what = "getInstance" /\ instanceM # 0) =>
           /\ got' = instanceM
           /\ instanceM' = instanceM
    /\ (seen'.what = "getInstance" /\ instanceM = 0) =>
           /\ got' = instanceM'
           /\ got' # 0

\* C26: a call of updateAll invokes updateEachTimestep once for every call of
\* addItemToUpdate made on the instance, in the order of those calls (an item added k
\* times is updated k times), and leaves the registered items as they are; getInstance
\* returns the instance that is alive, the same on every call until it is destroyed
C26_UpdateAllOncePerRegistration == [][UpdatesEveryRegistration]_vars

C26_Witness ==
    /\ seen.what = "updateAll"
    /\ updates = <<"a", "b", "a">>
    /\ made = 2
    /\ got = instanceM

Pass2SkipsDirection ==
    pc = "pass2" =>
        /\ \A k \in 1..Len(newAll) : newAll[k] \in DOMAIN distances
        /\ geom' = geom
        /\ distances' = distances
        /\ myExtended' = myExtended
        /\ geomsCW' = geomsCW
        /\ geomsCCW' = geomsCCW
        /\ pc' \in {"pass2", "build"}

\* C27: when the first loop of computeNodeShapeDefault is over every direction of the
\* list has a distance, so the second loop skips every direction: it changes no
\* centerline, no boundary and no distance and never returns the empty polygon
C27_Pass2SkipsEverything == [][Pass2SkipsDirection]_vars

C27_Witness ==
    /\ pc = "build"
    /\ idx = 1
    /\ Len(newAll) = 3
    /\ DOMAIN distances = Range(newAll)
    /\ myExtended = {}

\* C28: in computeUniqueDirectionList every erased partner is at a position after the
\* scanned edge, so the scan position stays valid and on the same edge; the first
\* incident edge is never removed and the returned list is not empty
C28_ErasedAfterScanned ==
    /\ ~iterInvalid
    /\ 1 \notin erased
    /\ pc \in {"unique", "merged"} => (Len(newAll) >= 1 /\ newAll[1] = 1)

C28_Witness ==
    /\ pc = "merged"
    /\ Cardinality(erased) >= 2
    /\ ~iterInvalid
    /\ newAll = <<1>>
\* C29: for every corner of the Default polygon, the closing corner included,
\* getSmoothCorner receives the clockwise boundary of the preceding direction in the
\* same orientation, so that the tails it works with run the same way for all corners
C29_CornersSameOrientation ==
    seen.what = "build" =>
        \A j \in DOMAIN seen.begShapes, k \in DOMAIN seen.begShapes :
            /\ seen.begShapes[j].reversed = seen.begShapes[k].reversed
            /\ seen.tails[j].reversed = seen.tails[k].reversed
\* C30: whenever compute returns the polygon of computeNodeShapeSmall, chosen directly
\* or after computeNodeShapeDefault returned fewer than 3 points, every incident edge
\* has the centerline it had before the call
C30_FallbackLeavesCenterlines ==
    (pc = "done" /\ smallCalls >= 1) => \A e \in 1..nEdges : geom[e] = Centerline
====
